---- MODULE Spec2Model ----
(***************************************************************************)
(* Record fusion of project-iris: merge_sources.py (merge_faculty_record,  *)
(* dedupe_publications) and api_enricher.py (merge_scholar_data,           *)
(* enrich_faculty_member and the source lookups it calls).                 *)
(*                                                                         *)
(* Strings are sequences of one-character strings.  A Python value that    *)
(* the code only ever tests for truthiness (None, '', 0, [], a missing     *)
(* key) is the empty sequence, 0 or the empty set.                         *)
(***************************************************************************)
EXTENDS Integers, Sequences, FiniteSets, TLC

VARIABLES
    base,        \* merge_faculty_record: first argument
    overlay,     \* merge_faculty_record: second argument
    merged,      \* merge_faculty_record(base, overlay)
    swapped,     \* merge_faculty_record(overlay, base)
    pc,          \* position of the merge driver
    existing,    \* merge_scholar_data: first argument, as passed in
    existing_after, \* the object passed as `existing`, after the call
    new_data,    \* merge_scholar_data: second argument
    sd_merged,   \* merge_scholar_data(existing, new_data)
    sd_pc,       \* position of the scholar-merge driver
    faculty,     \* enrich_faculty_member: its argument
    enriched,    \* enrich_faculty_member(faculty)
    scholar_data,   \* enrich_faculty_member: its local scholar_data
    sources_tried,  \* enrich_faculty_member: its local sources_tried
    en_pc,       \* position of the enrichment driver
    third,       \* a third partial record, merged after base and overlay
    inner_left,  \* merge_faculty_record(base, overlay)
    left,        \* merge_faculty_record(inner_left, third)
    inner_right, \* merge_faculty_record(overlay, third)
    right,       \* merge_faculty_record(base, inner_right)
    as_pc,       \* position of the three-record driver
    aff_arg,     \* check_ksu_affiliation: its argument
    aff_result,  \* check_ksu_affiliation: "True", "False" or the exception
    name_a,      \* names_match: first argument
    name_b,      \* names_match: second argument
    name_result, \* names_match: "True", "False" or the exception
    mt_pc,       \* which of the two functions is called, "done" afterwards
    request,     \* search: the query parameters of the request
    fetched,     \* search: what index.search returned, as (id, score) rows
    response,    \* search: the HTTP response
    sr_pc,       \* position of the /search handler
    files,       \* search service: the state of the three data files on disk
    model,       \* search service: the global `model`
    index,       \* search service: the global `index`
    lookup,      \* search service: the global `lookup`
    metadata,    \* search service: the global `metadata`
    ld_pc,       \* position of load_resources within the startup event
    server,      \* the ASGI server: "starting", "serving" or "exited"
    served,      \* number of requests handled so far
    observed,    \* what each handler found in the globals when it ran
    gs_data,     \* merge_sources.main: the Google Scholar dataset
    api_data,    \* merge_sources.main: the API-enriched dataset
    base_data,   \* merge_sources.main: the dataset chosen as base
    overlay_by_id,  \* merge_sources.main: the overlay records by net_id
    merged_data, \* merge_sources.main: the output list
    fu_pc,       \* position of merge_sources.main
    pre_enriched,   \* api_enricher.main: input records that hold api_sources
    findable,    \* api_enricher.main: records the lookup finds a source for
    output_file, \* api_enricher.main: the output file, "absent" before a save
    progress_file,  \* api_enricher.main: the progress file
    output_data, \* api_enricher.main: its local output_data
    start_from,  \* api_enricher.main: its local start_from
    loop_i,      \* api_enricher.main: its loop variable i
    i_bound,     \* api_enricher.main: whether i is bound ('i' in dir())
    enriched_count, \* api_enricher.main: its local enriched_count
    rs_pc,       \* position of api_enricher.main
    interrupted, \* whether the current run was interrupted
    runs,        \* number of runs started
    processed,   \* history: the indices whose iteration has completed
    researchers, \* social swarm: the input list
    queue,       \* social swarm: the asyncio.Queue of batches
    swarm_results,  \* social swarm: the shared results list
    progress,    \* social swarm: the shared progress dict
    w_pc,        \* social swarm: the position of each worker
    w_batch,     \* social swarm: what is left of each worker's batch
    main_pc      \* social swarm: the position of main

vars == <<base, overlay, merged, swapped, pc,
          existing, existing_after, new_data, sd_merged, sd_pc,
          faculty, enriched, scholar_data, sources_tried, en_pc,
          third, inner_left, left, inner_right, right, as_pc,
          aff_arg, aff_result, name_a, name_b, name_result, mt_pc,
          request, fetched, response, sr_pc,
          files, model, index, lookup, metadata, ld_pc, server, served,
          observed,
          gs_data, api_data, base_data, overlay_by_id, merged_data, fu_pc,
          pre_enriched, findable, output_file, progress_file, output_data,
          start_from, loop_i, i_bound, enriched_count, rs_pc, interrupted,
          runs, processed,
          researchers, queue, swarm_results, progress, w_pc, w_batch, main_pc>>

assoc_vars  == <<third, inner_left, left, inner_right, right, as_pc>>
merge_vars  == <<base, overlay, merged, swapped, pc>>
sd_vars     == <<existing, existing_after, new_data, sd_merged, sd_pc>>
enrich_vars == <<faculty, enriched, scholar_data, sources_tried, en_pc>>
match_vars  == <<aff_arg, aff_result, name_a, name_b, name_result, mt_pc>>
search_vars == <<request, fetched, response, sr_pc>>
load_vars   == <<files, model, index, lookup, metadata, ld_pc, server, served,
                 observed>>
fuse_vars   == <<gs_data, api_data, base_data, overlay_by_id, merged_data, fu_pc>>
resume_vars ==
    <<pre_enriched, findable, output_file, progress_file, output_data,
      start_from, loop_i, i_bound, enriched_count, rs_pc, interrupted, runs,
      processed>>
swarm_vars ==
    <<researchers, queue, swarm_results, progress, w_pc, w_batch, main_pc>>
not_load_vars ==
    <<merge_vars, sd_vars, enrich_vars, assoc_vars, match_vars, search_vars>>
not_fuse_vars ==
    <<merge_vars, sd_vars, enrich_vars, assoc_vars, match_vars, search_vars,
      load_vars>>
not_resume_vars ==
    <<merge_vars, sd_vars, enrich_vars, assoc_vars, match_vars, search_vars,
      load_vars, fuse_vars>>
not_swarm_vars ==
    <<merge_vars, sd_vars, enrich_vars, assoc_vars, match_vars, search_vars,
      load_vars, fuse_vars, resume_vars>>

-----------------------------------------------------------------------------
(* Bounds of the model *)

\* metrics (h_index, i10_index, citation counts) range over 0..MaxMetric
MaxMetric == 2
\* each input publication list holds at most MaxPubLen entries
MaxPubLen == 2
\* each API response holds at most MaxCandidates candidates
MaxCandidates == 1
\* an affiliation list holds at most MaxAffLen entries
MaxAffLen == 2
\* a generated name holds at most MaxNameLen characters
MaxNameLen == 4
\* index.search returns at most MaxFetched rows
MaxFetched == 2
\* the limit of a valid request is at most MaxLimit
MaxLimit == 2
\* weights are multiples of 1 / WeightDen
WeightDen == 2
\* similarity scores are multiples of 1 / ScoreDen
ScoreDen == 2
\* requests handled by the search service in one run
MaxRequests == 2
\* longest dataset handed to merge_sources.main
MaxDataset == 2
\* workers of the social enrichment swarm (NUM_WORKERS, 8 in the code)
NumWorkers == 2
\* researchers per batch of the swarm (BATCH_SIZE, 100 in the code)
BatchSize == 2
\* longest input list of the swarm
MaxResearchers == 3
\* number of faculty records in the input of api_enricher.main
FacultyLen == 11
\* runs of api_enricher.main, each restarted from the saved progress
MaxRuns == 2

(* Program constants *)

\* merge_sources.py: dedupe_publications(all_pubs)[:50]
PUB_CAP == 50
\* merge_sources.py / api_enricher.py: list(... | ...)[:15]
INTEREST_CAP == 15
\* api_enricher.py: MAX_PUBLICATIONS = 30
MAX_PUBLICATIONS == 30
\* search_api.py, line 217: limit: int = Query(20, ge=1, le=100)
LIMIT_MAX == 100
\* api_enricher.py line 617: progress is saved every tenth record
SAVE_EVERY == 10

-----------------------------------------------------------------------------
(* Strings *)

UpperChars == <<"A","B","C","D","E","F","G","H","I","J","K","L","M",
                "N","O","P","Q","R","S","T","U","V","W","X","Y","Z">>
LowerChars == <<"a","b","c","d","e","f","g","h","i","j","k","l","m",
                "n","o","p","q","r","s","t","u","v","w","x","y","z">>

\* str.lower() on one character
LowerChar(c) ==
    IF \E i \in 1..26 : UpperChars[i] = c
    THEN LowerChars[CHOOSE i \in 1..26 : UpperChars[i] = c]
    ELSE c

\* str.lower()
Lower(s) == [i \in 1..Len(s) |-> LowerChar(s[i])]

IsSpace(c) == c = " "

\* str.strip()
Strip(s) ==
    LET nonblank == {i \in 1..Len(s) : ~IsSpace(s[i])}
    IN  IF nonblank = {} THEN <<>>
        ELSE LET lo == CHOOSE i \in nonblank : \A j \in nonblank : i <= j
                 hi == CHOOSE i \in nonblank : \A j \in nonblank : i >= j
             IN  SubSeq(s, lo, hi)

\* Python's `a in b` on strings
IsSubstr(a, b) ==
    \E i \in 0..(Len(b) - Len(a)) : SubSeq(b, i + 1, i + Len(a)) = a

\* str.startswith
StartsWith(s, p) == Len(p) <= Len(s) /\ SubSeq(s, 1, Len(p)) = p

\* str.replace(p, '') for a prefix p that occurs at most at the start
RemovePrefix(s, p) ==
    IF StartsWith(s, p) THEN SubSeq(s, Len(p) + 1, Len(s)) ELSE s

Max(a, b) == IF a >= b THEN a ELSE b
Min(a, b) == IF a <= b THEN a ELSE b

\* list[:n]
Take(s, n) == SubSeq(s, 1, Min(Len(s), n))

\* the elements of a sequence
Range(s) == {s[i] : i \in 1..Len(s)}

-----------------------------------------------------------------------------
(* Publications and dedupe_publications (merge_sources.py) *)

NoString == <<>>

Pub(t, d, c, y, src) ==
    [title |-> t, doi |-> d, citations |-> c, year |-> y, source |-> src]

\* line 35: title = (pub.get('title') or '').lower().strip()
dedupe_title(pub) == Strip(Lower(pub.title))

\* line 38: if doi and doi in seen_dois
doi_seen(doi, seen_dois) == doi # NoString /\ doi \in seen_dois

\* line 42, mutated: only an equal title counts as seen
title_seen_exact(title, seen_titles) == title # NoString /\ title \in seen_titles

\* line 42: if title and any(title in t or t in title for t in seen_titles)
title_seen(title, seen_titles) ==
    /\ title # NoString
    /\ \E t \in seen_titles : IsSubstr(title, t) \/ IsSubstr(t, title)

RECURSIVE dedupe_from(_, _, _, _, _)
\* lines 33-49: the loop body, from entry i on
dedupe_from(pubs, i, seen_dois, seen_titles, unique) ==
    IF i > Len(pubs) THEN unique
    ELSE LET pub   == pubs[i]
             doi   == pub.doi
             title == dedupe_title(pub)
         IN  IF doi_seen(doi, seen_dois)
             THEN dedupe_from(pubs, i + 1, seen_dois, seen_titles, unique)
             ELSE IF title_seen(title, seen_titles)
             THEN dedupe_from(pubs, i + 1, seen_dois, seen_titles, unique)
             ELSE dedupe_from(pubs, i + 1,
                      IF doi # NoString THEN seen_dois \cup {doi} ELSE seen_dois,
                      IF title # NoString THEN seen_titles \cup {title}
                                          ELSE seen_titles,
                      Append(unique, pub))

\* lines 27-51
dedupe_publications(pubs) == dedupe_from(pubs, 1, {}, {}, <<>>)

\* line 104, mutated: the year is left out of the sort key
sorts_before_citations_only(p, q) == p.citations > q.citations

\* line 104: the sort key (-(citations or 0), -(year or 0)); p sorts strictly
\* before q
sorts_before(p, q) ==
    \/ p.citations > q.citations
    \/ p.citations = q.citations /\ p.year > q.year

\* one step of the stable sort: x goes after every entry that does not sort
\* after it
insert_sorted(x, t) ==
    LET k == Cardinality({i \in 1..Len(t) : ~sorts_before(x, t[i])})
    IN  SubSeq(t, 1, k) \o <<x>> \o SubSeq(t, k + 1, Len(t))

RECURSIVE sort_from(_, _, _)
\* acc holds the first i - 1 entries of s in sorted order
sort_from(s, i, acc) ==
    IF Len(acc) >= Len(s) THEN acc
    ELSE sort_from(s, i + 1, insert_sorted(s[i], acc))

\* line 104: all_pubs.sort(key=...), Python's sort being stable
sort_pubs(s) == sort_from(s, 1, <<>>)

\* lines 99-107: base_pubs + overlay_pubs, sorted, deduplicated, capped
merged_publications(base_pubs, overlay_pubs) ==
    Take(dedupe_publications(sort_pubs(base_pubs \o overlay_pubs)), PUB_CAP)

-----------------------------------------------------------------------------
(* Records *)

NoScholar ==
    [exists |-> FALSE, scholar_id |-> NoString, name |-> NoString,
     affiliation |-> NoString, interests |-> {}, h_index |-> 0,
     i10_index |-> 0, total_citations |-> 0, citedby |-> 0,
     publications |-> <<>>, publication_count |-> 0, source |-> "",
     sources |-> {}, ksu_verified |-> FALSE]

\* a non-empty scholar object with every value missing
BlankScholar == [NoScholar EXCEPT !.exists = TRUE]

\* a faculty record with every optional field missing; scholar_null says
\* that the record has the key 'scholar' with the value null
BlankRecord ==
    [name |-> NoString, first_name |-> NoString, last_name |-> NoString,
     net_id |-> NoString,
     h_index |-> 0, citation_count |-> 0, scholar |-> NoScholar,
     scholar_null |-> FALSE,
     api_sources |-> {}, google_scholar_id |-> NoString, sources |-> {},
     ksu_verified |-> FALSE]

-----------------------------------------------------------------------------
(* merge_faculty_record (merge_sources.py, lines 54-124) *)

\* line 59: base.get('h_index') or base.get('scholar', {}).get('h_index') or 0
record_h(r) == IF r.h_index # 0 THEN r.h_index ELSE r.scholar.h_index

\* line 64: base.get('citation_count')
\*          or base.get('scholar', {}).get('total_citations') or 0
record_cites(r) ==
    IF r.citation_count # 0 THEN r.citation_count ELSE r.scholar.total_citations

\* line 94: base_scholar.get('total_citations') or base_scholar.get('citedby') or 0
scholar_cites(s) == IF s.total_citations # 0 THEN s.total_citations ELSE s.citedby

\* lines 61, 66, 85-96, mutated: the overlay's value replaces the base's
higher_metric_overlay(base_value, overlay_value) == overlay_value

\* lines 61, 66, 85-96: max(base value, overlay value)
higher_metric(base_value, overlay_value) == Max(base_value, overlay_value)

\* line 77, mutated: the base's value is preferred
merged_string_base_first(base_value, overlay_value) ==
    IF base_value # NoString THEN base_value ELSE overlay_value

\* line 77: overlay_scholar.get(key) or base_scholar.get(key) or ''
merged_string(base_value, overlay_value) ==
    IF overlay_value # NoString THEN overlay_value ELSE base_value

RECURSIVE drop_any(_, _)
\* the sets left of S when some k of its elements are dropped
drop_any(S, k) ==
    IF k = 0 THEN {S} ELSE UNION {drop_any(S \ {x}, k - 1) : x \in S}

\* lines 82 and api_enricher.py 477: list(set)[:15]; a set's iteration order
\* is not defined, so any INTEREST_CAP of its elements may be the ones kept
truncated_interests(S) ==
    IF Cardinality(S) <= INTEREST_CAP THEN {S}
    ELSE drop_any(S, Cardinality(S) - INTEREST_CAP)

\* lines 117, 119: r.get('google_scholar_id')
\*                 or r_scholar.get('scholar_id', '').startswith('uk')
has_google_scholar(r) ==
    r.google_scholar_id # NoString \/ StartsWith(r.scholar.scholar_id, <<"u", "k">>)

\* lines 113-120: set(r.get('api_sources') or []), plus 'google_scholar'
record_sources(r) ==
    r.api_sources \cup (IF has_google_scholar(r) THEN {"google_scholar"} ELSE {})

\* line 122: merged['sources'] = list(base_sources | overlay_sources)
merged_sources(b, o) == record_sources(b) \cup record_sources(o)

\* lines 72-110: the scholar object of the merged record; kept is the
\* outcome of the interests truncation
merged_scholar(b, o, kept) ==
    LET bs == b.scholar
        os == o.scholar
    IN  IF bs.exists \/ os.exists
        THEN [exists            |-> TRUE,
              scholar_id        |-> merged_string(bs.scholar_id, os.scholar_id),
              name              |-> merged_string(bs.name, os.name),
              affiliation       |-> merged_string(bs.affiliation, os.affiliation),
              interests         |-> kept,
              h_index           |-> higher_metric(bs.h_index, os.h_index),
              i10_index         |-> higher_metric(bs.i10_index, os.i10_index),
              total_citations   |-> higher_metric(scholar_cites(bs), scholar_cites(os)),
              citedby           |-> 0,
              publications      |-> merged_publications(bs.publications,
                                                        os.publications),
              publication_count |-> Len(merged_publications(bs.publications,
                                                            os.publications)),
              source            |-> "",
              sources           |-> {},
              ksu_verified      |-> FALSE]
        ELSE bs

\* lines 54-124: merged = base.copy(), then the assignments to it; the key
\* 'scholar' is assigned only when one of the two scholar objects is non-empty
merge_faculty_record(b, o, kept) ==
    [b EXCEPT !.h_index        = higher_metric(record_h(b), record_h(o)),
              !.citation_count = higher_metric(record_cites(b), record_cites(o)),
              !.scholar        = merged_scholar(b, o, kept),
              !.scholar_null   = b.scholar_null
                                 /\ ~(b.scholar.exists \/ o.scholar.exists),
              !.sources        = merged_sources(b, o)]

\* lines 59 and 64: r.get('scholar', {}) is None for a record whose key
\* 'scholar' holds null, and None.get raises AttributeError; the `or` chain
\* reaches it when the top-level h_index or citation_count is missing or 0
record_raises(r) ==
    r.scholar_null /\ (r.h_index = 0 \/ r.citation_count = 0)

\* lines 59-65: the outcome of the four reads, for base and overlay
merge_faculty_record_raises(b, o) == record_raises(b) \/ record_raises(o)

\* the possible outcomes of the interests truncation in a merge of b and o
interest_outcomes(b, o) ==
    truncated_interests(b.scholar.interests \cup o.scholar.interests)

-----------------------------------------------------------------------------
(* merge_scholar_data (api_enricher.py, lines 462-504) *)

\* line 500: new_data.get('source', 'unknown')
source_of(d) == IF d.source = "" THEN "unknown" ELSE d.source

\* lines 484-490: doi and doi in existing_dois, or title in existing_titles
sd_skip(pub, dois, titles) ==
    \/ pub.doi # NoString /\ pub.doi \in dois
    \/ Lower(pub.title) \in titles

RECURSIVE sd_append_from(_, _, _, _, _)
\* lines 483-495: the loop over new_data's publications, from entry i on
sd_append_from(new_pubs, i, dois, titles, pubs) ==
    IF i > Len(new_pubs) THEN pubs
    ELSE LET pub == new_pubs[i]
         IN  IF sd_skip(pub, dois, titles)
             THEN sd_append_from(new_pubs, i + 1, dois, titles, pubs)
             ELSE sd_append_from(new_pubs, i + 1,
                      IF pub.doi # NoString THEN dois \cup {pub.doi} ELSE dois,
                      titles \cup {Lower(pub.title)},
                      Append(pubs, pub))

\* lines 479-495: existing_pubs after the loop; existing_pubs is the list
\* object of existing['publications'], appended to in place
sd_existing_pubs(ex, nd) ==
    sd_append_from(nd.publications, 1,
                   {ex.publications[i].doi : i \in 1..Len(ex.publications)}
                       \ {NoString},
                   {Lower(ex.publications[i].title) : i \in 1..Len(ex.publications)},
                   ex.publications)

\* line 502: merged['ksu_verified'] = True
sd_verified(ex, nd) == TRUE

\* lines 499-501: set(merged.get('sources', [])), plus new_data's source
sd_sources(ex, nd) == ex.sources \cup {source_of(nd)}

\* lines 462-504; kept is the outcome of the interests truncation
merge_scholar_data(ex, nd, kept) ==
    IF ~ex.exists THEN nd
    ELSE [ex EXCEPT
            !.h_index         = IF nd.h_index > ex.h_index THEN nd.h_index
                                ELSE ex.h_index,
            !.total_citations = IF nd.total_citations > ex.total_citations
                                THEN nd.total_citations ELSE ex.total_citations,
            !.interests       = kept,
            !.publications    = Take(sd_existing_pubs(ex, nd), MAX_PUBLICATIONS),
            !.sources         = sd_sources(ex, nd),
            !.ksu_verified    = sd_verified(ex, nd)]

\* the object passed as `existing`, as its holder sees it after the call:
\* merged is a shallow copy, so the appends have reached its list (every
\* record an adapter returns has a publications list, lines 213, 310, 452)
existing_after_merge(ex, nd) ==
    IF ~ex.exists THEN ex
    ELSE [ex EXCEPT !.publications = sd_existing_pubs(ex, nd)]

sd_interest_outcomes(ex, nd) == truncated_interests(ex.interests \cup nd.interests)

-----------------------------------------------------------------------------
(* Affiliation and name checks (api_enricher.py, lines 79-110) *)

\* line 81: ksu_keywords
ksu_keywords ==
    { <<"k","e","n","n","e","s","a","w">>,
      <<"k","s","u">>,
      <<"k","e","n","n","e","s","a","w"," ","s","t","a","t","e">> }

\* an affiliation entry: a dict with display_name / name, a plain string, or
\* a value of another type.  A field of a dict that holds a non-empty value
\* which is not a string (a number, a list, a nested dict) is marked as an
\* object; None, a missing key and '' are the empty string
AffDict(dn, nm) == [kind |-> "dict", display_name |-> dn, name |-> nm,
                    text |-> NoString, dn_object |-> FALSE, nm_object |-> FALSE]
AffStr(t) == [kind |-> "str", display_name |-> NoString, name |-> NoString,
              text |-> t, dn_object |-> FALSE, nm_object |-> FALSE]
AffOther == [kind |-> "other", display_name |-> NoString, name |-> NoString,
             text |-> NoString, dn_object |-> FALSE, nm_object |-> FALSE]

\* line 85: aff.get('display_name') or aff.get('name') or '' picks a value
\* without .lower(): the call raises AttributeError
aff_raises(aff) ==
    /\ aff.kind = "dict"
    /\ IF aff.dn_object \/ aff.display_name # NoString THEN aff.dn_object
       ELSE aff.nm_object

\* lines 83-87, mutated: the 'name' field of a dict is not consulted
aff_str_display_name_only(aff) ==
    IF aff.kind = "dict" THEN Lower(aff.display_name)
    ELSE IF aff.kind = "str" THEN Lower(aff.text)
    ELSE NoString

\* lines 83-87: the lowercase string of one entry
aff_str(aff) ==
    IF aff.kind = "dict"
    THEN Lower(IF aff.display_name # NoString THEN aff.display_name ELSE aff.name)
    ELSE IF aff.kind = "str" THEN Lower(aff.text)
    ELSE NoString

\* lines 88-90: a keyword occurs in the entry's string
aff_hit(aff) ==
    ~aff_raises(aff) /\ \E keyword \in ksu_keywords : IsSubstr(keyword, aff_str(aff))

\* lines 79-91: True is returned at the first entry with a keyword, unless
\* an earlier entry raised
check_ksu_affiliation(affiliations) ==
    \E i \in 1..Len(affiliations) :
        /\ aff_hit(affiliations[i])
        /\ \A j \in 1..(i - 1) : ~aff_raises(affiliations[j])

\* lines 79-91: the call ends in the AttributeError of line 85
check_ksu_affiliation_raises(affiliations) ==
    \E i \in 1..Len(affiliations) :
        /\ aff_raises(affiliations[i])
        /\ \A j \in 1..(i - 1) : ~aff_hit(affiliations[j])

\* the outcome of the call as its caller sees it
check_ksu_affiliation_outcome(affiliations) ==
    IF check_ksu_affiliation_raises(affiliations) THEN "AttributeError"
    ELSE IF check_ksu_affiliation(affiliations) THEN "True" ELSE "False"

RECURSIVE split_from(_, _, _, _)
\* str.split(): the maximal runs of non-blank characters
split_from(s, i, word, words) ==
    IF i > Len(s)
    THEN IF word = NoString THEN words ELSE Append(words, word)
    ELSE IF IsSpace(s[i])
    THEN split_from(s, i + 1, NoString,
                    IF word = NoString THEN words ELSE Append(words, word))
    ELSE split_from(s, i + 1, Append(word, s[i]), words)

split(s) == split_from(s, 1, NoString, <<>>)

\* lines 94-110, mutated: only the containment test of line 99
names_match_containment_only(name1, name2) ==
    LET n1 == Strip(Lower(name1))
        n2 == Strip(Lower(name2))
    IN  IsSubstr(n1, n2) \/ IsSubstr(n2, n1)

\* lines 94-110, mutated: only the surname and first-initial test of lines
\* 102-109
names_match_initial_rule_only(name1, name2) ==
    LET parts1 == split(Strip(Lower(name1)))
        parts2 == split(Strip(Lower(name2)))
    IN  /\ parts1 # <<>> /\ parts2 # <<>>
        /\ parts1[Len(parts1)] = parts2[Len(parts2)]
        /\ parts1[1][1] = parts2[1][1]

\* lines 94-110
names_match(name1, name2) ==
    LET n1 == Strip(Lower(name1))
        n2 == Strip(Lower(name2))
        parts1 == split(n1)
        parts2 == split(n2)
    IN  \/ IsSubstr(n1, n2) \/ IsSubstr(n2, n1)
        \/ /\ parts1 # <<>> /\ parts2 # <<>>
           /\ parts1[Len(parts1)] = parts2[Len(parts2)]
           /\ Len(parts1[1]) > 0 /\ Len(parts2[1]) > 0
           /\ parts1[1][1] = parts2[1][1]

-----------------------------------------------------------------------------
(* The source lookups (api_enricher.py, lines 117-455); the HTTP responses *)
(* are inputs                                                              *)

\* lines 127-135: whether one OpenAlex result is accepted
openalex_accepts(name, result) ==
    /\ \/ check_ksu_affiliation(result.last_known_institutions)
       \/ check_ksu_affiliation(result.affiliations)
    /\ names_match(name, result.display_name)

\* lines 117-138: the first accepted result, NoScholar standing for None
\* lines 190-216: the scholar data built from it and from its works
enrich_from_openalex(name, results, works) ==
    LET hits == {i \in 1..Len(results) : openalex_accepts(name, results[i])}
    IN  IF hits = {} THEN NoScholar
        ELSE LET author == results[CHOOSE i \in hits : \A j \in hits : i <= j]
             IN  [BlankScholar EXCEPT
                    !.scholar_id = <<"o","p","e","n","a","l","e","x",":">> \o author.id,
                    !.name = author.display_name,
                    !.affiliation =
                        IF author.last_known_institutions = <<>> THEN NoString
                        ELSE author.last_known_institutions[1].display_name,
                    !.h_index = author.h_index,
                    !.total_citations = author.cited_by_count,
                    !.publication_count = author.works_count,
                    !.publications = works,
                    !.source = "openalex",
                    !.ksu_verified = TRUE]

\* lines 233-246: whether one Semantic Scholar search hit is accepted
semantic_accepts(name, hit) ==
    /\ hit.authorId # NoString
    /\ hit.details_ok
    /\ check_ksu_affiliation(hit.affiliations)
    /\ names_match(name, hit.name)

\* lines 223-248 and 288-313
enrich_from_semantic_scholar(name, hits_, papers) ==
    LET ok == {i \in 1..Len(hits_) : semantic_accepts(name, hits_[i])}
    IN  IF ok = {} THEN NoScholar
        ELSE LET author == hits_[CHOOSE i \in ok : \A j \in ok : i <= j]
             IN  [BlankScholar EXCEPT
                    !.scholar_id = <<"s","2",":">> \o author.authorId,
                    !.name = author.name,
                    !.affiliation =
                        IF author.affiliations = <<>> THEN NoString
                        ELSE author.affiliations[1].text,
                    !.h_index = author.hIndex,
                    !.total_citations = author.citationCount,
                    !.publication_count = author.paperCount,
                    !.publications = papers,
                    !.source = "semantic_scholar",
                    !.ksu_verified = TRUE]

\* lines 345-361: whether one result of the broad ORCID search is accepted
orcid_accepts(result) ==
    /\ result.orcid_id # NoString
    /\ result.record_ok
    /\ \E i \in 1..Len(result.org_names) :
          IsSubstr(<<"k","e","n","n","e","s","a","w">>, Lower(result.org_names[i]))

\* lines 320-363: the ORCID id found, NoString standing for None; strict_id
\* is the first result of the search restricted to affiliation Kennesaw
search_orcid(strict_id, broad) ==
    IF strict_id # NoString THEN strict_id
    ELSE LET first5 == Take(broad, 5)
             ok == {i \in 1..Len(first5) : orcid_accepts(first5[i])}
         IN  IF ok = {} THEN NoString
             ELSE first5[CHOOSE i \in ok : \A j \in ok : i <= j].orcid_id

\* lines 415-455; record_ok is whether the record request returned data
enrich_from_orcid(strict_id, broad, record_ok, works) ==
    LET orcid_id == search_orcid(strict_id, broad)
    IN  IF orcid_id = NoString \/ ~record_ok THEN NoScholar
        ELSE [BlankScholar EXCEPT
                !.scholar_id = <<"o","r","c","i","d",":">> \o orcid_id,
                !.publication_count = Len(works),
                !.publications = works,
                !.source = "orcid",
                !.ksu_verified = TRUE]

-----------------------------------------------------------------------------
(* The partial records the merge is run on *)

Metrics == 0..MaxMetric

\* 'https://doi.org/'
DoiPrefix == <<"h","t","t","p","s",":","/","/","d","o","i",".","o","r","g","/">>

\* publications as the adapters produce them: Google Scholar entries carry no
\* DOI, ORCID entries may carry an empty title, the DOI of a Semantic Scholar
\* or ORCID entry is kept as the provider spelled it
PubSamples ==
    { Pub(<<"a","b">>, <<"1","0",".","1","/","x">>, 1, 1, "openalex"),
      Pub(<<"A">>, <<"1","0",".","1","/","X">>, 1, 1, "semantic_scholar"),
      Pub(<<"c","d">>, DoiPrefix \o <<"1","0",".","1","/","x">>, 2, 0, "orcid"),
      Pub(<<"e">>, <<"1","0",".","1","/","X">>, 0, 2, "semantic_scholar"),
      Pub(NoString, NoString, 0, 0, "orcid") }

RECURSIVE SeqsUpTo(_, _)
\* the sequences over S of length at most n
SeqsUpTo(S, n) ==
    IF n = 0 THEN {<<>>}
    ELSE LET shorter == SeqsUpTo(S, n - 1)
         IN  shorter \cup {Append(q, x) : q \in shorter, x \in S}

PubLists == SeqsUpTo(PubSamples, MaxPubLen)

WithScholar(sch) == [BlankRecord EXCEPT !.scholar = sch]

\* records that differ in h_index, at the top level and in the scholar object
HIndexRecords ==
    {[BlankRecord EXCEPT !.h_index = h] : h \in Metrics}
    \cup {[BlankRecord EXCEPT !.h_index = h,
                              !.scholar = [BlankScholar EXCEPT !.h_index = sh]] :
            h \in Metrics, sh \in Metrics}

I10Records ==
    {WithScholar([BlankScholar EXCEPT !.i10_index = i]) : i \in Metrics}

\* records that differ in the citation counts; Google Scholar records carry
\* citedby, API records total_citations
CitationRecords ==
    {[BlankRecord EXCEPT !.citation_count = c,
                         !.scholar = [BlankScholar EXCEPT !.total_citations = tc,
                                                          !.citedby = cb]] :
        c \in Metrics, tc \in Metrics, cb \in Metrics}

ScholarIds    == {NoString, <<"u","k","7">>, <<"s","2",":","1">>}
ScholarNames  == {NoString, <<"J","o">>, <<"A","l">>}
Affiliations  == {NoString, <<"K","S","U">>, <<"G","T">>}

StringRecords ==
    {[BlankRecord EXCEPT !.name = nm,
                         !.scholar = [BlankScholar EXCEPT !.scholar_id = id,
                                                          !.name = nm,
                                                          !.affiliation = aff]] :
        id \in ScholarIds, nm \in ScholarNames, aff \in Affiliations}

\* fresh partial records (no 'sources' yet), and records an earlier
\* merge_faculty_record returned: their 'sources' holds the sources of both
\* inputs of that merge, their 'api_sources' only those of its base
ProvenanceRecords ==
    {[BlankRecord EXCEPT !.api_sources = api, !.google_scholar_id = gs,
                         !.ksu_verified = ver,
                         !.sources = IF earlier = {} THEN {}
                                     ELSE api \cup earlier
                                          \cup (IF gs # NoString
                                                THEN {"google_scholar"} ELSE {})] :
        api \in {{}, {"openalex"}, {"orcid"}},
        earlier \in {{}, {"semantic_scholar"}},
        gs \in {NoString, <<"g","1">>},
        ver \in BOOLEAN}

FifteenInterests ==
    {"t1","t2","t3","t4","t5","t6","t7","t8","t9","t10","t11","t12","t13",
     "t14","t15"}

InterestRecords ==
    {WithScholar([BlankScholar EXCEPT !.interests = ints]) :
        ints \in {{}, {"ai"}, {"ml"}, {"ai", "ml"}, FifteenInterests}}

PublicationRecords ==
    {WithScholar([BlankScholar EXCEPT !.publications = pubs,
                                      !.publication_count = Len(pubs)]) :
        pubs \in PubLists}

Digits == <<"0","1","2","3","4","5","6","7","8","9">>

\* the i-th entry of a long OpenAlex list: its own title and DOI, citation
\* counts and years that repeat
LongPub(i) ==
    LET d1 == Digits[(i \div 10) + 1]
        d2 == Digits[(i % 10) + 1]
    IN  Pub(<<"t", d1, d2>>, <<"1","0",".","9","/", d1, d2>>,
            1 + (i % 2), i % 3, "openalex")

\* publication lists at the cap of merge_faculty_record and one short of it
LongPubLists ==
    {[i \in 1..n |-> LongPub(i)] : n \in {PUB_CAP - 1, PUB_CAP}}

\* records with a publication list shorter than the longest
ShortPublicationRecords ==
    {WithScholar([BlankScholar EXCEPT !.publications = pubs,
                                      !.publication_count = Len(pubs)]) :
        pubs \in SeqsUpTo(PubSamples, MaxPubLen - 1)}

\* records whose merge with another record reaches or exceeds the cap
TruncationRecords ==
    {WithScholar([BlankScholar EXCEPT !.publications = pubs,
                                      !.publication_count = Len(pubs)]) :
        pubs \in LongPubLists}

\* records whose scholar object is null, as a scraper that found no profile
\* may store it
NullScholarRecords ==
    {[BlankRecord EXCEPT !.scholar_null = TRUE, !.h_index = h,
                         !.citation_count = c] :
        h \in Metrics, c \in Metrics}

PartialRecords ==
    HIndexRecords \cup I10Records \cup CitationRecords \cup StringRecords
    \cup ProvenanceRecords \cup InterestRecords \cup PublicationRecords

DoiAbc == <<"1","0",".","1","/","a","b","c">>
DoiXyz == <<"1","0",".","2","/","x","y","z">>

\* two partial scholar records of one person: source X (OpenAlex) with
\* h_index 10 and one publication, source Y (Semantic Scholar) with h_index
\* 15, the same publication and a second one; the publications carry a
\* title or, as the adapters leave it when the provider has none, ''
ScenarioX(titled) ==
    [BlankScholar EXCEPT
        !.source = "openalex", !.ksu_verified = TRUE, !.h_index = 10,
        !.publications =
            <<Pub(IF titled THEN <<"p">> ELSE NoString, DoiAbc, 5, 0, "openalex")>>,
        !.publication_count = 1]

ScenarioY(titled) ==
    [BlankScholar EXCEPT
        !.source = "semantic_scholar", !.ksu_verified = TRUE, !.h_index = 15,
        !.publications =
            <<Pub(IF titled THEN <<"p">> ELSE NoString, DoiAbc, 8, 0,
                  "semantic_scholar"),
              Pub(IF titled THEN <<"q">> ELSE NoString, DoiXyz, 2, 0,
                  "semantic_scholar")>>,
        !.publication_count = 2]

\* the faculty records of api_enricher for the two sources
ScenarioRecord(sch) ==
    [BlankRecord EXCEPT !.h_index = sch.h_index, !.scholar = sch,
                        !.api_sources = {sch.source}, !.ksu_verified = TRUE]


-----------------------------------------------------------------------------
(* The merge driver: merge_faculty_record(base, overlay), then the same two *)
(* records merged in the other order                                        *)

IdleScholarMerge ==
    /\ existing = NoScholar /\ existing_after = NoScholar
    /\ new_data = NoScholar /\ sd_merged = NoScholar
    /\ sd_pc = "idle"

IdleEnrich ==
    /\ faculty = BlankRecord /\ enriched = BlankRecord
    /\ scholar_data = NoScholar /\ sources_tried = {}
    /\ en_pc = "idle"

IdleAssoc ==
    /\ third = BlankRecord /\ inner_left = BlankRecord /\ left = BlankRecord
    /\ inner_right = BlankRecord /\ right = BlankRecord /\ as_pc = "idle"

NoRequest ==
    [limit |-> 0, min_h_index |-> 0, institution |-> NoString,
     h_weight |-> 0, citation_weight |-> 0]

NoResponse == [status |-> 0, results |-> <<>>, semantic_weight |-> 0]

IdleSearch ==
    /\ request = NoRequest /\ fetched = <<>> /\ response = NoResponse
    /\ sr_pc = "idle"

IdleFuse ==
    /\ gs_data = <<>> /\ api_data = <<>> /\ base_data = <<>>
    /\ overlay_by_id = <<>> /\ merged_data = <<>> /\ fu_pc = "idle"

\* load_progress without a progress file (api_enricher.py, line 563)
NoProgress == [last_index |-> -1, enriched_count |-> 0]

IdleResume ==
    /\ pre_enriched = {} /\ findable = {} /\ output_file = <<>>
    /\ progress_file = NoProgress /\ output_data = <<>> /\ start_from = 0
    /\ loop_i = 0 /\ i_bound = FALSE /\ enriched_count = 0 /\ rs_pc = "idle"
    /\ interrupted = FALSE /\ runs = 0 /\ processed = {}

Workers == 0..(NumWorkers - 1)

IdleSwarm ==
    /\ researchers = <<>> /\ queue = <<>> /\ swarm_results = <<>>
    /\ progress = [done |-> 0, errors |-> 0, total |-> 0]
    /\ w_pc = [w \in Workers |-> "idle"]
    /\ w_batch = [w \in Workers |-> <<>>]
    /\ main_pc = "idle"

DataFiles == {"index", "lookup", "metadata"}

IdleLoad ==
    /\ files = [f \in DataFiles |-> "valid"]
    /\ model = "None" /\ index = "None" /\ lookup = "None" /\ metadata = "None"
    /\ ld_pc = "idle" /\ server = "idle" /\ served = 0 /\ observed = {}

IdleMatch ==
    /\ aff_arg = <<>> /\ aff_result = "none"
    /\ name_a = NoString /\ name_b = NoString /\ name_result = "none"
    /\ mt_pc = "idle"

\* the two records handed to merge_faculty_record: two partial records, a
\* record with a long publication list and one with a short list, the
\* two records of the scenario, or a record with a null scholar object and
\* a partial record
Init ==
    /\ \/ base \in PartialRecords /\ overlay \in PartialRecords
       \/ base \in NullScholarRecords
          /\ overlay \in HIndexRecords \cup StringRecords \cup NullScholarRecords
       \/ base \in HIndexRecords \cup StringRecords
          /\ overlay \in NullScholarRecords
       \/ base \in TruncationRecords /\ overlay \in ShortPublicationRecords
       \/ base \in ShortPublicationRecords /\ overlay \in TruncationRecords
       \/ \E t \in BOOLEAN : /\ base = ScenarioRecord(ScenarioX(t))
                              /\ overlay = ScenarioRecord(ScenarioY(t))
    /\ merged = BlankRecord
    /\ swapped = BlankRecord
    /\ pc = "start"
    /\ IdleScholarMerge
    /\ IdleEnrich
    /\ IdleAssoc
    /\ IdleMatch
    /\ IdleSearch
    /\ IdleLoad
    /\ IdleFuse
    /\ IdleResume
    /\ IdleSwarm

\* the call merge_faculty_record(base, overlay); an exception ends the
\* driver
MergeFacultyRecord ==
    /\ pc = "start"
    /\ IF merge_faculty_record_raises(base, overlay)
       THEN /\ pc' = "AttributeError"
            /\ UNCHANGED merged
       ELSE /\ \E kept \in interest_outcomes(base, overlay) :
                  merged' = merge_faculty_record(base, overlay, kept)
            /\ pc' = "merged"
    /\ UNCHANGED <<base, overlay, swapped, sd_vars, enrich_vars, assoc_vars, match_vars, search_vars,
                   load_vars, fuse_vars, resume_vars, swarm_vars>>

MergeSwapped ==
    /\ pc = "merged"
    /\ \E kept \in interest_outcomes(overlay, base) :
          swapped' = merge_faculty_record(overlay, base, kept)
    /\ pc' = "swapped"
    /\ UNCHANGED <<base, overlay, merged, sd_vars, enrich_vars, assoc_vars, match_vars, search_vars,
                   load_vars, fuse_vars, resume_vars, swarm_vars>>

Next == MergeFacultyRecord \/ MergeSwapped

Spec == Init /\ [][Next]_vars

-----------------------------------------------------------------------------
(* The scholar-merge driver: merge_scholar_data(existing, new_data) *)

AdapterSources == {"openalex", "semantic_scholar", "orcid"}

\* what enrich_from_openalex, enrich_from_semantic_scholar and
\* enrich_from_orcid return: 'source' set, 'ksu_verified': True
AdapterData ==
    {[BlankScholar EXCEPT !.source = src, !.ksu_verified = TRUE,
                          !.h_index = h, !.total_citations = tc] :
        src \in AdapterSources, h \in Metrics, tc \in Metrics}
    \cup {[BlankScholar EXCEPT !.source = "semantic_scholar",
                               !.ksu_verified = TRUE,
                               !.publications = pubs,
                               !.publication_count = Len(pubs)] :
            pubs \in PubLists}
    \cup {[BlankScholar EXCEPT !.source = "openalex", !.ksu_verified = TRUE,
                               !.interests = ints] :
            ints \in {{"ai"}, {"ml", "nlp"}}}

\* a scholar object already in the record: a Google Scholar scrape (no
\* 'source', no 'ksu_verified', 'citedby'), or what an earlier
\* merge_scholar_data returned
PriorData ==
    {NoScholar}
    \cup {[BlankScholar EXCEPT !.h_index = h, !.citedby = cb] :
            h \in Metrics, cb \in Metrics}
    \cup {[BlankScholar EXCEPT !.publications = pubs,
                               !.publication_count = Len(pubs)] :
            pubs \in PubLists}
    \cup {[BlankScholar EXCEPT !.interests = FifteenInterests]}
    \cup {[d EXCEPT !.sources = {"openalex", "orcid"}] : d \in AdapterData}

IdleMerge ==
    /\ base = BlankRecord /\ overlay = BlankRecord /\ merged = BlankRecord
    /\ swapped = BlankRecord /\ pc = "idle"

\* the two records handed to merge_scholar_data: what the record holds and
\* what an adapter returned, or the two records of the scenario
InitScholar ==
    /\ \/ existing \in PriorData \cup AdapterData /\ new_data \in AdapterData
       \/ \E t \in BOOLEAN : existing = ScenarioX(t) /\ new_data = ScenarioY(t)
    /\ existing_after = existing
    /\ sd_merged = NoScholar
    /\ sd_pc = "start"
    /\ IdleMerge
    /\ IdleEnrich
    /\ IdleAssoc
    /\ IdleMatch
    /\ IdleSearch
    /\ IdleLoad
    /\ IdleFuse
    /\ IdleResume
    /\ IdleSwarm

MergeScholarData ==
    /\ sd_pc = "start"
    /\ \E kept \in sd_interest_outcomes(existing, new_data) :
          sd_merged' = merge_scholar_data(existing, new_data, kept)
    /\ existing_after' = existing_after_merge(existing, new_data)
    /\ sd_pc' = "merged"
    /\ UNCHANGED <<existing, new_data, merge_vars, enrich_vars, assoc_vars, match_vars, search_vars,
                   load_vars, fuse_vars, resume_vars, swarm_vars>>

NextScholar == MergeScholarData

SpecScholar == InitScholar /\ [][NextScholar]_vars

-----------------------------------------------------------------------------
(* The enrichment driver: enrich_faculty_member(faculty)                   *)
(* (api_enricher.py, lines 507-555), one step per source                   *)

JaneSmith == <<"J","a","n","e"," ","S","m","i","t","h">>
JohnSmith == <<"J","o","h","n"," ","S","m","i","t","h">>
Kennesaw  == <<"K","e","n","n","e","s","a","w"," ","S","t","a","t","e",
               " ","U","n","i","v","e","r","s","i","t","y">>
KentState == <<"K","e","n","t"," ","S","t","a","t","e",
               " ","U","n","i","v","e","r","s","i","t","y">>

CandidateNames == {JaneSmith, JohnSmith, NoString}

OpenAlexResults ==
    {[id |-> <<"A","1">>, display_name |-> nm, last_known_institutions |-> insts,
      affiliations |-> <<>>, h_index |-> h, cited_by_count |-> h,
      works_count |-> 1] :
        nm \in CandidateNames,
        insts \in {<<>>, <<AffDict(Kennesaw, NoString)>>,
                   <<AffDict(KentState, NoString)>>},
        h \in {1}}

SemanticHits ==
    {[authorId |-> <<"7">>, details_ok |-> ok, name |-> nm,
      affiliations |-> affs, hIndex |-> h, citationCount |-> h,
      paperCount |-> 1] :
        ok \in BOOLEAN, nm \in CandidateNames,
        affs \in {<<>>, <<AffStr(Kennesaw)>>, <<AffStr(KentState)>>},
        h \in {MaxMetric}}

OrcidResults ==
    {[orcid_id |-> <<"0","-","1">>, record_ok |-> ok, org_names |-> orgs] :
        ok \in BOOLEAN, orgs \in {<<>>, <<Kennesaw>>, <<KentState>>}}

\* the publication lists the works requests return
WorksResponses == SeqsUpTo(PubSamples, 1)

\* the records of the input file: scraped directory entries, with or
\* without a Google Scholar object
FacultyInputs ==
    {[BlankRecord EXCEPT !.name = nm, !.first_name = fl[1],
                         !.last_name = fl[2], !.scholar = sch,
                         !.h_index = sch.h_index,
                         !.citation_count = sch.citedby] :
        nm \in {NoString, JaneSmith},
        fl \in {<<NoString, NoString>>,
                <<<<"J","a","n","e">>, <<"S","m","i","t","h">>>>},
        sch \in {NoScholar}
                \cup {[BlankScholar EXCEPT !.h_index = h, !.citedby = h,
                                           !.publications = pubs] :
                        h \in Metrics, pubs \in WorksResponses}}

InitEnrich ==
    /\ faculty \in FacultyInputs
    /\ enriched = BlankRecord
    /\ scholar_data = NoScholar
    /\ sources_tried = {}
    /\ en_pc = "start"
    /\ IdleMerge
    /\ IdleScholarMerge
    /\ IdleAssoc
    /\ IdleMatch
    /\ IdleSearch
    /\ IdleLoad
    /\ IdleFuse
    /\ IdleResume
    /\ IdleSwarm

\* one `scholar_data = merge_scholar_data(scholar_data, data)` of lines 526,
\* 535, 545, for a lookup that returned data; while no source has matched,
\* scholar_data is the scholar object of the faculty record itself
MergeFound(data, src) ==
    /\ \E kept \in sd_interest_outcomes(scholar_data, data) :
          scholar_data' = merge_scholar_data(scholar_data, data, kept)
    /\ sources_tried' = sources_tried \cup {src}
    /\ faculty' = IF sources_tried = {}
                  THEN [faculty EXCEPT
                          !.scholar = existing_after_merge(scholar_data, data)]
                  ELSE faculty

\* lines 509-517: `if not name: return faculty`, else the locals are set up
EnrichStart ==
    /\ en_pc = "start"
    /\ IF faculty.name = NoString
       THEN /\ enriched' = faculty
            /\ en_pc' = "done"
            /\ UNCHANGED scholar_data
       ELSE /\ scholar_data' = faculty.scholar
            /\ en_pc' = "openalex"
            /\ UNCHANGED enriched
    /\ UNCHANGED <<faculty, sources_tried, merge_vars, sd_vars, assoc_vars, match_vars, search_vars,
                   load_vars, fuse_vars, resume_vars, swarm_vars>>

\* lines 520-527
TryOpenAlex ==
    /\ en_pc = "openalex"
    /\ \E results \in SeqsUpTo(OpenAlexResults, MaxCandidates),
          works \in WorksResponses :
          LET data == enrich_from_openalex(faculty.name, results, works)
          IN  IF data.exists THEN MergeFound(data, "openalex")
              ELSE UNCHANGED <<scholar_data, sources_tried, faculty, load_vars, fuse_vars, resume_vars, swarm_vars>>
    /\ en_pc' = "semantic_scholar"
    /\ UNCHANGED <<enriched, merge_vars, sd_vars, assoc_vars, match_vars, search_vars, load_vars,
                   fuse_vars, resume_vars, swarm_vars>>

\* lines 529-536
TrySemanticScholar ==
    /\ en_pc = "semantic_scholar"
    /\ \E hits_ \in SeqsUpTo(SemanticHits, MaxCandidates),
          papers \in WorksResponses :
          LET data == enrich_from_semantic_scholar(faculty.name, hits_, papers)
          IN  IF data.exists THEN MergeFound(data, "semantic_scholar")
              ELSE UNCHANGED <<scholar_data, sources_tried, faculty, load_vars, fuse_vars, resume_vars, swarm_vars>>
    /\ en_pc' = "orcid"
    /\ UNCHANGED <<enriched, merge_vars, sd_vars, assoc_vars, match_vars, search_vars, load_vars,
                   fuse_vars, resume_vars, swarm_vars>>

\* lines 538-546
TryOrcid ==
    /\ en_pc = "orcid"
    /\ IF faculty.first_name # NoString /\ faculty.last_name # NoString
       THEN \E strict_id \in {NoString, <<"0","-","2">>},
               broad \in SeqsUpTo(OrcidResults, MaxCandidates),
               record_ok \in BOOLEAN,
               works \in WorksResponses :
               LET data == enrich_from_orcid(strict_id, broad, record_ok, works)
               IN  IF data.exists THEN MergeFound(data, "orcid")
                   ELSE UNCHANGED <<scholar_data, sources_tried, faculty, load_vars, fuse_vars, resume_vars, swarm_vars>>
       ELSE UNCHANGED <<scholar_data, sources_tried, faculty, load_vars, fuse_vars, resume_vars, swarm_vars>>
    /\ en_pc' = "finish"
    /\ UNCHANGED <<enriched, merge_vars, sd_vars, assoc_vars, match_vars, search_vars, load_vars,
                   fuse_vars, resume_vars, swarm_vars>>

\* lines 548-555: `if scholar_data:` the record is filled in and marked
finish_record(fac, sd, tried) ==
    IF sd.exists
    THEN [fac EXCEPT !.scholar = sd, !.h_index = sd.h_index,
                     !.citation_count = sd.total_citations,
                     !.api_sources = tried,
                     !.ksu_verified = TRUE]
    ELSE fac

EnrichFinish ==
    /\ en_pc = "finish"
    /\ enriched' = finish_record(faculty, scholar_data, sources_tried)
    /\ en_pc' = "done"
    /\ UNCHANGED <<faculty, scholar_data, sources_tried, merge_vars, sd_vars, assoc_vars, match_vars, search_vars,
                   load_vars, fuse_vars, resume_vars, swarm_vars>>

NextEnrich ==
    EnrichStart \/ TryOpenAlex \/ TrySemanticScholar \/ TryOrcid \/ EnrichFinish

SpecEnrich == InitEnrich /\ [][NextEnrich]_vars

-----------------------------------------------------------------------------
(* The three-record driver: base, overlay and third fused left to right,   *)
(* merge(merge(base, overlay), third), and right to left,                  *)
(* merge(base, merge(overlay, third))                                      *)

AssocRecords ==
    { BlankRecord,
      [BlankRecord EXCEPT !.api_sources = {"openalex"}],
      [BlankRecord EXCEPT !.api_sources = {"orcid"}, !.ksu_verified = TRUE],
      [BlankRecord EXCEPT !.google_scholar_id = <<"g","1">>,
                          !.scholar = [BlankScholar EXCEPT !.citedby = MaxMetric]],
      [BlankRecord EXCEPT !.h_index = MaxMetric],
      [BlankRecord EXCEPT !.scholar = [BlankScholar EXCEPT !.h_index = 1,
                                                           !.i10_index = 1]],
      [BlankRecord EXCEPT !.citation_count = 1],
      WithScholar([BlankScholar EXCEPT !.interests = {"ai"}]),
      WithScholar([BlankScholar EXCEPT !.interests = {"ml"}]),
      WithScholar([BlankScholar EXCEPT !.interests = FifteenInterests]) }

InitAssoc ==
    /\ base \in AssocRecords
    /\ overlay \in AssocRecords
    /\ third \in AssocRecords
    /\ merged = BlankRecord /\ swapped = BlankRecord /\ pc = "idle"
    /\ inner_left = BlankRecord /\ left = BlankRecord
    /\ inner_right = BlankRecord /\ right = BlankRecord
    /\ as_pc = "start"
    /\ IdleScholarMerge
    /\ IdleEnrich
    /\ IdleMatch
    /\ IdleSearch
    /\ IdleLoad
    /\ IdleFuse
    /\ IdleResume
    /\ IdleSwarm

MergeInnerLeft ==
    /\ as_pc = "start"
    /\ \E kept \in interest_outcomes(base, overlay) :
          inner_left' = merge_faculty_record(base, overlay, kept)
    /\ as_pc' = "inner_left"
    /\ UNCHANGED <<third, left, inner_right, right, merge_vars, sd_vars,
                   enrich_vars, match_vars, search_vars, load_vars, fuse_vars, resume_vars,
                   swarm_vars>>

MergeLeft ==
    /\ as_pc = "inner_left"
    /\ \E kept \in interest_outcomes(inner_left, third) :
          left' = merge_faculty_record(inner_left, third, kept)
    /\ as_pc' = "left"
    /\ UNCHANGED <<third, inner_left, inner_right, right, merge_vars, sd_vars,
                   enrich_vars, match_vars, search_vars, load_vars, fuse_vars, resume_vars,
                   swarm_vars>>

MergeInnerRight ==
    /\ as_pc = "left"
    /\ \E kept \in interest_outcomes(overlay, third) :
          inner_right' = merge_faculty_record(overlay, third, kept)
    /\ as_pc' = "inner_right"
    /\ UNCHANGED <<third, inner_left, left, right, merge_vars, sd_vars,
                   enrich_vars, match_vars, search_vars, load_vars, fuse_vars, resume_vars,
                   swarm_vars>>

MergeRight ==
    /\ as_pc = "inner_right"
    /\ \E kept \in interest_outcomes(base, inner_right) :
          right' = merge_faculty_record(base, inner_right, kept)
    /\ as_pc' = "right"
    /\ UNCHANGED <<third, inner_left, left, inner_right, merge_vars, sd_vars,
                   enrich_vars, match_vars, search_vars, load_vars, fuse_vars, resume_vars,
                   swarm_vars>>

NextAssoc == MergeInnerLeft \/ MergeLeft \/ MergeInnerRight \/ MergeRight

SpecAssoc == InitAssoc /\ [][NextAssoc]_vars

-----------------------------------------------------------------------------
(* The two verifiers called on their own: check_ksu_affiliation on one  *)
(* affiliation list, or names_match on one pair of names                *)

\* affiliation entries as the providers send them, and malformed ones
AffEntries ==
    { AffStr(Kennesaw), AffStr(KentState), AffStr(<<"K","S","U">>),
      AffStr(NoString), AffOther,
      AffDict(Kennesaw, NoString), AffDict(KentState, NoString),
      AffDict(NoString, Kennesaw), AffDict(KentState, Kennesaw),
      AffDict(NoString, NoString),
      [AffDict(NoString, NoString) EXCEPT !.dn_object = TRUE],
      [AffDict(NoString, Kennesaw) EXCEPT !.dn_object = TRUE],
      [AffDict(NoString, NoString) EXCEPT !.nm_object = TRUE] }

AffLists == SeqsUpTo(AffEntries, MaxAffLen)

DrJaneASmith == <<"D","r","."," ","J","a","n","e"," ","A","."," ",
                  "S","m","i","t","h">>
DrJaneSmith  == <<"D","r","."," ","J","a","n","e"," ","S","m","i","t","h">>
MarySmith    == <<"M","a","r","y"," ","S","m","i","t","h">>

ExampleNames == {DrJaneASmith, DrJaneSmith, JaneSmith, JohnSmith, MarySmith}

\* the characters of the generated names: a lower-case letter, an
\* upper-case letter and the blank
NameChars == {"a", "B", " "}

GeneratedNames == SeqsUpTo(NameChars, MaxNameLen)

InitMatch ==
    /\ \/ /\ mt_pc = "affiliation"
          /\ aff_arg \in AffLists
          /\ name_a = NoString /\ name_b = NoString
       \/ /\ mt_pc = "names"
          /\ aff_arg = <<>>
          /\ \/ name_a \in ExampleNames /\ name_b \in ExampleNames
             \/ name_a \in GeneratedNames /\ name_b \in GeneratedNames
    /\ aff_result = "none"
    /\ name_result = "none"
    /\ IdleMerge
    /\ IdleScholarMerge
    /\ IdleEnrich
    /\ IdleAssoc
    /\ IdleSearch
    /\ IdleLoad
    /\ IdleFuse
    /\ IdleResume
    /\ IdleSwarm

CheckKsuAffiliation ==
    /\ mt_pc = "affiliation"
    /\ aff_result' = check_ksu_affiliation_outcome(aff_arg)
    /\ mt_pc' = "done"
    /\ UNCHANGED <<aff_arg, name_a, name_b, name_result,
                   merge_vars, sd_vars, enrich_vars, assoc_vars, search_vars, load_vars, fuse_vars,
                   resume_vars, swarm_vars>>

NamesMatch ==
    /\ mt_pc = "names"
    /\ name_result' = IF names_match(name_a, name_b) THEN "True" ELSE "False"
    /\ mt_pc' = "done"
    /\ UNCHANGED <<aff_arg, aff_result, name_a, name_b,
                   merge_vars, sd_vars, enrich_vars, assoc_vars, search_vars, load_vars, fuse_vars,
                   resume_vars, swarm_vars>>

NextMatch == CheckKsuAffiliation \/ NamesMatch

SpecMatch == InitMatch /\ [][NextMatch]_vars

-----------------------------------------------------------------------------
(* The /search handler of search_api.py (lines 214-298).  A weight w of the *)
(* request is the integer w * WeightDen, a similarity score s the integer   *)
(* s * ScoreDen; a weighted score is the fraction num / den of two          *)
(* integers, so that sums and quotients are exact                           *)

\* lines 215-222: the constraints FastAPI checks before the handler runs
valid_request(req) ==
    /\ req.limit >= 1 /\ req.limit <= LIMIT_MAX
    /\ req.min_h_index >= 0
    /\ req.h_weight >= 0 /\ req.h_weight <= WeightDen
    /\ req.citation_weight >= 0 /\ req.citation_weight <= WeightDen

\* line 235
fetch_limit(limit) == Min(limit * 10, 500)

\* one row of index.search with lookup.get(int(idx), {}) applied: found is
\* whether the id has a record in the lookup table
Row(idx, score, found, h, c, inst) ==
    [idx |-> idx, score |-> score, found |-> found, h_index |-> h,
     citations |-> c, institution |-> inst]

\* max(iterable, default=1), mutated: without the trailing `or 1`
max_default_one(S) ==
    IF S = {} THEN 1 ELSE CHOOSE x \in S : \A y \in S : y <= x

\* max(iterable, default=1) or 1
max_or_one(S) ==
    IF S = {} THEN 1
    ELSE LET m == CHOOSE x \in S : \A y \in S : y <= x
         IN  IF m = 0 THEN 1 ELSE m

\* line 248: over every fetched id, a missing record counting as 0
max_h(rows) ==
    max_or_one({IF rows[i].found THEN rows[i].h_index ELSE 0 : i \in 1..Len(rows)})

\* line 249
max_c(rows) ==
    max_or_one({IF rows[i].found THEN rows[i].citations ELSE 0 : i \in 1..Len(rows)})

\* lines 252-264: the row has a record and passes both filters
passes_filters(req, row) ==
    /\ row.found
    /\ row.h_index >= req.min_h_index
    /\ \/ req.institution = NoString
       \/ IsSubstr(Lower(req.institution), Lower(row.institution))

\* lines 268-269: h / max_h or c / max_c raises ZeroDivisionError for a row
\* that reaches them when a maximum is 0
divides_by_zero(req, rows) ==
    /\ max_h(rows) = 0 \/ max_c(rows) = 0
    /\ \E i \in 1..Len(rows) : passes_filters(req, rows[i])

\* line 267: 1.0 - h_weight - citation_weight, times WeightDen
semantic_weight(req) == WeightDen - req.h_weight - req.citation_weight

\* lines 271-273, mutated: the h-index term is subtracted
weighted_num_h_subtracted(req, row, mh, mc) ==
    row.score * semantic_weight(req) * mh * mc
    - row.h_index * req.h_weight * ScoreDen * mc
    + row.citations * req.citation_weight * ScoreDen * mh

\* lines 268-273: the weighted score as a fraction
weighted_num(req, row, mh, mc) ==
    row.score * semantic_weight(req) * mh * mc
    + row.h_index * req.h_weight * ScoreDen * mc
    + row.citations * req.citation_weight * ScoreDen * mh

weighted_den(mh, mc) == ScoreDen * WeightDen * mh * mc

\* lines 251-280: the candidates list, in the order of the fetched rows
candidates(req, rows) ==
    LET mh == max_h(rows)
        mc == max_c(rows)
        kept(row) == passes_filters(req, row)
        entry(row) == [idx |-> row.idx, semantic_score |-> row.score,
                       weighted_num |-> weighted_num(req, row, mh, mc),
                       weighted_den |-> weighted_den(mh, mc),
                       h_index |-> row.h_index, citations |-> row.citations,
                       institution |-> row.institution]
        passing == SelectSeq(rows, kept)
    IN  [i \in 1..Len(passing) |-> entry(passing[i])]

\* line 283, mutated: the candidates are left in the order of the fetch
sort_candidates_unsorted(cands) == cands

\* line 283: candidates.sort(key=lambda x: -x['weighted_score']), a stable
\* sort; all candidates of one call have the same denominator
sort_candidates(cands) ==
    LET place(i) ==
            Cardinality({j \in 1..Len(cands) :
                \/ cands[j].weighted_num > cands[i].weighted_num
                \/ cands[j].weighted_num = cands[i].weighted_num /\ j < i}) + 1
    IN  [k \in 1..Len(cands) |->
            cands[CHOOSE i \in 1..Len(cands) : place(i) = k]]

\* lines 286-302: the first `limit` candidates, ranked from 1
search_results(req, rows) ==
    LET top == Take(sort_candidates(candidates(req, rows)), req.limit)
    IN  [k \in 1..Len(top) |->
            [rank |-> k, idx |-> top[k].idx,
             semantic_score |-> top[k].semantic_score,
             weighted_num |-> top[k].weighted_num,
             weighted_den |-> top[k].weighted_den,
             h_index |-> top[k].h_index, citations |-> top[k].citations,
             institution |-> top[k].institution]]

\* the institutions of the lookup table and the filters of a request
KSU == <<"K","S","U">>
GT  == <<"G","T">>
InstitutionFilters == {NoString, <<"k","s","u">>}

Request(lim, mh, inst, hw, cw) ==
    [limit |-> lim, min_h_index |-> mh, institution |-> inst,
     h_weight |-> hw, citation_weight |-> cw]

\* weights below 0, between 0 and 1, and above 1
WeightValues == -1..(WeightDen + 1)

\* the rows every request with other than the usual weights is run on
WeightRows ==
    <<Row(1, ScoreDen, TRUE, 1, MaxMetric, KSU), Row(2, 1, TRUE, MaxMetric, 0, GT)>>

\* rows that differ in what the filters and the maxima read
FilterRows ==
    {[found |-> TRUE, h_index |-> h, citations |-> MaxMetric - h,
      institution |-> inst, score |-> ScoreDen] :
        h \in Metrics, inst \in {KSU, GT}}
    \cup {[found |-> FALSE, h_index |-> 0, citations |-> 0,
           institution |-> NoString, score |-> 1]}

FilterLists == SeqsUpTo(FilterRows, MaxFetched)

\* the rows of one index.search call: row i has id i
Numbered(rows) ==
    [i \in 1..Len(rows) |->
        Row(i, rows[i].score, rows[i].found, rows[i].h_index,
            rows[i].citations, rows[i].institution)]

\* lines 239-242: D holds the inner products of the L2-normalised query
\* vector with the L2-normalised vectors of the index (METRIC_INNER_PRODUCT,
\* build_vector_index.py:101-109), so each lies in [-1, 1]
SimilarityValues == (-ScoreDen)..ScoreDen

\* limits below, inside and above the range FastAPI accepts
Limits == {0} \cup (1..MaxLimit) \cup {LIMIT_MAX + 1}

\* a request and the rows index.search returns for it: requests that differ
\* in their weights on fixed rows; requests that differ in limit and
\* filters on every short list of rows; two rows with the same similarity
\* and any metrics under every valid pair of weights; or three rows, more
\* than the limit, one of them at another institution; or two rows with
\* any inner products the index can return
InitSearch ==
    /\ \/ \E hw \in WeightValues, cw \in WeightValues :
             /\ request = Request(MaxLimit, 0, NoString, hw, cw)
             /\ fetched = WeightRows
       \/ \E lim \in Limits, mh \in {0, 1}, inst \in InstitutionFilters,
             cw \in {0, 1}, rows \in FilterLists :
             /\ request = Request(lim, mh, inst, 1, cw)
             /\ fetched = Numbered(rows)
       \/ \E hw \in 0..WeightDen, cw \in 0..WeightDen, sc \in 0..ScoreDen,
             h1 \in Metrics, c1 \in Metrics, h2 \in Metrics, c2 \in Metrics :
             /\ request = Request(MaxLimit, 0, NoString, hw, cw)
             /\ fetched = <<Row(1, sc, TRUE, h1, c1, KSU),
                            Row(2, sc, TRUE, h2, c2, KSU)>>
       \/ \E lim \in 1..MaxLimit, mh \in {0, 1}, inst \in InstitutionFilters,
             s2 \in 0..ScoreDen, h1 \in Metrics, h2 \in Metrics, h3 \in Metrics :
             /\ request = Request(lim, mh, inst, 1, 0)
             /\ fetched = <<Row(1, ScoreDen, TRUE, h1, 0, GT),
                            Row(2, s2, TRUE, h2, 1, KSU),
                            Row(3, ScoreDen, TRUE, h3, 0, KSU)>>
       \/ \E s1 \in SimilarityValues, s2 \in SimilarityValues,
             hw \in 0..WeightDen, h1 \in Metrics :
             /\ request = Request(MaxLimit, 0, NoString, hw, 0)
             /\ fetched = <<Row(1, s1, TRUE, h1, 1, KSU),
                            Row(2, s2, TRUE, MaxMetric, 0, GT)>>
    /\ response = NoResponse
    /\ sr_pc = "received"
    /\ IdleMerge
    /\ IdleScholarMerge
    /\ IdleEnrich
    /\ IdleAssoc
    /\ IdleMatch
    /\ IdleLoad
    /\ IdleFuse
    /\ IdleResume
    /\ IdleSwarm

\* lines 215-222: FastAPI validates the query parameters; an invalid
\* request is answered 422 without the handler running
Validate ==
    /\ sr_pc = "received"
    /\ IF valid_request(request)
       THEN /\ sr_pc' = "validated"
            /\ UNCHANGED response
       ELSE /\ sr_pc' = "responded"
            /\ response' = [NoResponse EXCEPT !.status = 422]
    /\ UNCHANGED <<request, fetched,
                   merge_vars, sd_vars, enrich_vars, assoc_vars, match_vars, load_vars, fuse_vars,
                   resume_vars, swarm_vars>>

\* lines 231-312: the handler body; an uncaught exception is answered with
\* status 500
Search ==
    /\ sr_pc = "validated"
    /\ Len(fetched) <= fetch_limit(request.limit)
    /\ response' = IF divides_by_zero(request, fetched)
                   THEN [NoResponse EXCEPT !.status = 500]
                   ELSE [status |-> 200,
                         results |-> search_results(request, fetched),
                         semantic_weight |-> semantic_weight(request)]
    /\ sr_pc' = "responded"
    /\ UNCHANGED <<request, fetched,
                   merge_vars, sd_vars, enrich_vars, assoc_vars, match_vars, load_vars, fuse_vars,
                   resume_vars, swarm_vars>>

NextSearch == Validate \/ Search

SpecSearch == InitSearch /\ [][NextSearch]_vars

-----------------------------------------------------------------------------
(* Start of the search service (search_api.py, lines 140-212 and the       *)
(* handlers): the startup event runs load_resources, a synchronous         *)
(* function, and the server accepts requests once the event has returned   *)

\* a data file on disk: real content, a Git LFS pointer, absent, or content
\* that is not what the reader expects (a truncated file, an error page)
FileStates == {"valid", "pointer", "missing", "garbage"}

\* lines 70-81: what curl left on disk; "failed" is a non-zero return code
\* or a file of at most 100 bytes
DownloadOutcomes == {"valid", "garbage", "failed"}

\* lines 46-57: a missing file and an LFS pointer are downloaded
needs_download(state) == state \in {"missing", "pointer"}

\* the handlers that read the globals
Handlers == {"/", "/health", "/search", "/stats", "/researcher", "/name", "/top"}

\* lines 194-196, mutated: requests are accepted as soon as the index is read
startup_complete_at_index(p) ==
    p \in {"read_lookup", "convert_keys", "read_metadata", "done"}

\* lines 194-196: the server accepts requests when the startup event has
\* returned, that is when load_resources has returned
startup_complete(p) == p = "done"

InitLoad ==
    /\ files \in [DataFiles -> FileStates]
    /\ model = "None" /\ index = "None" /\ lookup = "None" /\ metadata = "None"
    /\ ld_pc = "load_model"
    /\ server = "starting"
    /\ served = 0
    /\ observed = {}
    /\ IdleMerge
    /\ IdleScholarMerge
    /\ IdleEnrich
    /\ IdleAssoc
    /\ IdleMatch
    /\ IdleSearch
    /\ IdleFuse
    /\ IdleResume
    /\ IdleSwarm

\* line 147
LoadModel ==
    /\ ld_pc = "load_model"
    /\ model' = "loaded"
    /\ ld_pc' = "ensure_index"
    /\ UNCHANGED <<files, index, lookup, metadata, server, served, observed,
                   not_load_vars, fuse_vars, resume_vars, swarm_vars>>

\* lines 151-156: ensure_file_downloaded for one file, RuntimeError when it
\* returns False
EnsureFile(f, here, next) ==
    /\ ld_pc = here
    /\ IF needs_download(files[f])
       THEN \E outcome \in DownloadOutcomes :
               IF outcome = "failed"
               THEN /\ ld_pc' = "raised"
                    /\ UNCHANGED files
               ELSE /\ ld_pc' = next
                    /\ files' = [files EXCEPT ![f] = outcome]
       ELSE /\ ld_pc' = next
            /\ UNCHANGED files
    /\ UNCHANGED <<model, index, lookup, metadata, server, served, observed,
                   not_load_vars, fuse_vars, resume_vars, swarm_vars>>

EnsureIndex == EnsureFile("index", "ensure_index", "ensure_lookup")

EnsureLookup == EnsureFile("lookup", "ensure_lookup", "ensure_metadata")

EnsureMetadata == EnsureFile("metadata", "ensure_metadata", "read_index")

\* lines 160-161: faiss.read_index raises on a file that is no index
ReadIndex ==
    /\ ld_pc = "read_index"
    /\ IF files["index"] = "valid"
       THEN index' = "loaded" /\ ld_pc' = "read_lookup"
       ELSE index' = index /\ ld_pc' = "raised"
    /\ UNCHANGED <<files, model, lookup, metadata, server, served, observed,
                   not_load_vars, fuse_vars, resume_vars, swarm_vars>>

\* lines 165-166: json.load, the keys of the table are strings
ReadLookup ==
    /\ ld_pc = "read_lookup"
    /\ IF files["lookup"] = "valid"
       THEN lookup' = "str_keys" /\ ld_pc' = "convert_keys"
       ELSE lookup' = lookup /\ ld_pc' = "raised"
    /\ UNCHANGED <<files, model, index, metadata, server, served, observed,
                   not_load_vars, fuse_vars, resume_vars, swarm_vars>>

\* line 168
ConvertKeys ==
    /\ ld_pc = "convert_keys"
    /\ lookup' = "int_keys"
    /\ ld_pc' = "read_metadata"
    /\ UNCHANGED <<files, model, index, metadata, server, served, observed,
                   not_load_vars, fuse_vars, resume_vars, swarm_vars>>

\* lines 171-175
ReadMetadata ==
    /\ ld_pc = "read_metadata"
    /\ IF files["metadata"] = "valid"
       THEN metadata' = "loaded" /\ ld_pc' = "done"
       ELSE metadata' = metadata /\ ld_pc' = "raised"
    /\ UNCHANGED <<files, model, index, lookup, server, served, observed,
                   not_load_vars, fuse_vars, resume_vars, swarm_vars>>

\* lines 194-196: the startup event has returned
StartupComplete ==
    /\ server = "starting"
    /\ startup_complete(ld_pc)
    /\ server' = "serving"
    /\ UNCHANGED <<files, model, index, lookup, metadata, ld_pc, served, observed,
                   not_load_vars, fuse_vars, resume_vars, swarm_vars>>

\* lines 194-196: the startup event raised, the server exits
StartupFailed ==
    /\ server = "starting"
    /\ ld_pc = "raised"
    /\ server' = "exited"
    /\ UNCHANGED <<files, model, index, lookup, metadata, ld_pc, served, observed,
                   not_load_vars, fuse_vars, resume_vars, swarm_vars>>

\* lines 199-424: a handler runs and reads the globals
Handle ==
    /\ server = "serving"
    /\ served < MaxRequests
    /\ \E h \in Handlers :
          observed' = observed \cup
              {[handler |-> h, model |-> model, index |-> index,
                lookup |-> lookup, metadata |-> metadata]}
    /\ served' = served + 1
    /\ UNCHANGED <<files, model, index, lookup, metadata, ld_pc, server,
                   not_load_vars, fuse_vars, resume_vars, swarm_vars>>

NextLoad ==
    \/ LoadModel
    \/ EnsureIndex
    \/ EnsureLookup
    \/ EnsureMetadata
    \/ ReadIndex
    \/ ReadLookup
    \/ ConvertKeys
    \/ ReadMetadata
    \/ StartupComplete
    \/ StartupFailed
    \/ Handle

SpecLoad == InitLoad /\ [][NextLoad]_vars

-----------------------------------------------------------------------------
(* Dataset fusion: merge_sources.main (merge_sources.py, lines 141-204)    *)

NetIds == {<<"a">>, <<"b">>}

\* records of the Google Scholar file: some without net_id
GsRecords ==
    {[BlankRecord EXCEPT !.net_id = id, !.h_index = h,
                         !.google_scholar_id = <<"g","1">>] :
        id \in NetIds \cup {NoString}, h \in {0, MaxMetric}}

\* records of the API-enriched file
ApiRecords ==
    {[BlankRecord EXCEPT !.net_id = id, !.h_index = 1,
                         !.api_sources = {"openalex"}] :
        id \in NetIds \cup {NoString}}

\* line 171: {r.get('net_id'): r for r in overlay_data if r.get('net_id')};
\* of two records with the same net_id the later one stays
by_net_id(data) ==
    LET ids == {data[i].net_id : i \in 1..Len(data)} \ {NoString}
        last(id) == CHOOSE i \in 1..Len(data) :
                        /\ data[i].net_id = id
                        /\ \A j \in 1..Len(data) : data[j].net_id = id => j <= i
    IN  [id \in ids |-> data[last(id)]]

\* line 184: overlay_by_id.get(net_id, {})
overlay_for(record, by_id) ==
    IF record.net_id \in DOMAIN by_id THEN by_id[record.net_id] ELSE BlankRecord

\* line 197: merged_data.sort(key=lambda r: -(r.get('h_index') or 0)), a
\* stable sort
sort_by_h_index(data) ==
    LET place(i) ==
            Cardinality({j \in 1..Len(data) :
                \/ data[j].h_index > data[i].h_index
                \/ data[j].h_index = data[i].h_index /\ j < i}) + 1
    IN  [k \in 1..Len(data) |->
            data[CHOOSE i \in 1..Len(data) : place(i) = k]]

InitFuse ==
    /\ gs_data \in SeqsUpTo(GsRecords, MaxDataset)
    /\ api_data \in SeqsUpTo(ApiRecords, MaxDataset)
    /\ base_data = <<>>
    /\ overlay_by_id = <<>>
    /\ merged_data = <<>>
    /\ fu_pc = "start"
    /\ IdleMerge
    /\ IdleScholarMerge
    /\ IdleEnrich
    /\ IdleAssoc
    /\ IdleMatch
    /\ IdleSearch
    /\ IdleLoad
    /\ IdleResume
    /\ IdleSwarm

\* lines 147-171: load both files, exit when both are empty, take the
\* larger dataset as base and index the other by net_id
LoadSources ==
    /\ fu_pc = "start"
    /\ IF gs_data = <<>> /\ api_data = <<>>
       THEN /\ fu_pc' = "exit"
            /\ UNCHANGED <<base_data, overlay_by_id, resume_vars, swarm_vars>>
       ELSE /\ fu_pc' = "merging"
            /\ IF Len(gs_data) >= Len(api_data)
               THEN /\ base_data' = gs_data
                    /\ overlay_by_id' = by_net_id(api_data)
               ELSE /\ base_data' = api_data
                    /\ overlay_by_id' = by_net_id(gs_data)
    /\ UNCHANGED <<gs_data, api_data, merged_data, not_fuse_vars, resume_vars, swarm_vars>>

\* lines 182-195: one iteration of the loop over base_data
MergeRecord ==
    /\ fu_pc = "merging"
    /\ Len(merged_data) < Len(base_data)
    /\ LET record == base_data[Len(merged_data) + 1]
           overlay_ == overlay_for(record, overlay_by_id)
       IN  \E kept \in interest_outcomes(record, overlay_) :
               merged_data' = Append(merged_data,
                                     merge_faculty_record(record, overlay_, kept))
    /\ UNCHANGED <<gs_data, api_data, base_data, overlay_by_id, fu_pc,
                   not_fuse_vars, resume_vars, swarm_vars>>

\* lines 197-204: sort the output by h-index and save it
SortAndSave ==
    /\ fu_pc = "merging"
    /\ Len(merged_data) = Len(base_data)
    /\ merged_data' = sort_by_h_index(merged_data)
    /\ fu_pc' = "saved"
    /\ UNCHANGED <<gs_data, api_data, base_data, overlay_by_id, not_fuse_vars, resume_vars, swarm_vars>>

NextFuse == LoadSources \/ MergeRecord \/ SortAndSave

SpecFuse == InitFuse /\ [][NextFuse]_vars

-----------------------------------------------------------------------------
(* Checkpointed enrichment: api_enricher.main (api_enricher.py, lines      *)
(* 558-645), run, interrupted and restarted from the saved progress.       *)
(* The same loop is in enrich_scholar_vpn_rotate.main (lines 336-488).     *)
(* Record k of a list is its element k + 1. sources_found, a histogram     *)
(* of the sources counted in enriched_count, is left out.                  *)

FacultyIndices == 0..(FacultyLen - 1)

\* a record as the loop sees it: "raw" without api_sources and never looked
\* up, "looked_up" when the lookup returned without a source, "enriched"
\* with api_sources
faculty_list ==
    [k \in 1..FacultyLen |->
        IF (k - 1) \in pre_enriched THEN "enriched" ELSE "raw"]

\* line 607: enrich_faculty_member(person), for a record with and without
\* a source
lookup_result(k) == IF k \in findable THEN "enriched" ELSE "looked_up"

\* line 645: i if 'i' in dir() else start_from
final_index(bound, i, start) == IF bound THEN i ELSE start

InitResume ==
    /\ pre_enriched \in {{}, {1}, {0, FacultyLen - 1}}
    /\ findable \in {{}, FacultyIndices}
    /\ output_file = <<>>
    /\ progress_file = NoProgress
    /\ output_data = <<>>
    /\ start_from = 0
    /\ loop_i = 0
    /\ i_bound = FALSE
    /\ enriched_count = 0
    /\ rs_pc = "start"
    /\ interrupted = FALSE
    /\ runs = 0
    /\ processed = {}
    /\ IdleMerge
    /\ IdleScholarMerge
    /\ IdleEnrich
    /\ IdleAssoc
    /\ IdleMatch
    /\ IdleSearch
    /\ IdleLoad
    /\ IdleFuse
    /\ IdleSwarm

\* lines 585-597: a run starts, or is started again after the last one
\* ended; output_data is the output file if there is one, else the input
StartRun ==
    /\ rs_pc \in {"start", "ended"}
    /\ runs < MaxRuns
    /\ runs' = runs + 1
    /\ output_data' = IF output_file = <<>> THEN faculty_list ELSE output_file
    /\ start_from' = progress_file.last_index + 1
    /\ enriched_count' = progress_file.enriched_count
    /\ i_bound' = FALSE
    /\ loop_i' = 0
    /\ interrupted' = FALSE
    /\ rs_pc' = "loop"
    /\ UNCHANGED <<pre_enriched, findable, output_file, progress_file,
                   processed, not_resume_vars, swarm_vars>>

\* lines 600-605: the for statement takes the next index, and the record is
\* passed over when the output already holds api_sources for it
LoopNext ==
    /\ rs_pc = "loop"
    /\ LET n == IF i_bound THEN loop_i + 1 ELSE start_from
       IN  IF n >= FacultyLen
           THEN /\ rs_pc' = "finally"
                /\ UNCHANGED <<loop_i, i_bound, processed, swarm_vars>>
           ELSE /\ loop_i' = n
                /\ i_bound' = TRUE
                /\ IF output_data[n + 1] = "enriched"
                   THEN /\ rs_pc' = "loop"
                        /\ processed' = processed \cup {n}
                   ELSE /\ rs_pc' = "lookup"
                        /\ UNCHANGED processed
    /\ UNCHANGED <<pre_enriched, findable, output_file, progress_file,
                   output_data, start_from, enriched_count, interrupted, runs,
                   not_resume_vars, swarm_vars>>

\* lines 607-615: the lookup returns and its result is stored
Lookup ==
    /\ rs_pc = "lookup"
    /\ output_data' = [output_data EXCEPT ![loop_i + 1] = lookup_result(loop_i)]
    /\ enriched_count' = IF lookup_result(loop_i) = "enriched"
                         THEN enriched_count + 1 ELSE enriched_count
    /\ processed' = processed \cup {loop_i}
    /\ rs_pc' = IF (loop_i + 1) % SAVE_EVERY = 0 THEN "save_output" ELSE "loop"
    /\ UNCHANGED <<pre_enriched, findable, output_file, progress_file,
                   start_from, loop_i, i_bound, interrupted, runs,
                   not_resume_vars, swarm_vars>>

\* lines 620-621: the periodic save of the output
SaveOutput ==
    /\ rs_pc = "save_output"
    /\ output_file' = output_data
    /\ rs_pc' = "save_progress"
    /\ UNCHANGED <<pre_enriched, findable, progress_file, output_data,
                   start_from, loop_i, i_bound, enriched_count, interrupted,
                   runs, processed, not_resume_vars, swarm_vars>>

\* line 622: save_progress(i, enriched_count, sources_found)
SaveProgress ==
    /\ rs_pc = "save_progress"
    /\ progress_file' = [last_index |-> loop_i, enriched_count |-> enriched_count]
    /\ rs_pc' = "loop"
    /\ UNCHANGED <<pre_enriched, findable, output_file, output_data,
                   start_from, loop_i, i_bound, enriched_count, interrupted,
                   runs, processed, not_resume_vars, swarm_vars>>

\* lines 624-629: KeyboardInterrupt or an exception anywhere in the try
\* block, the lookup included
Interrupt ==
    /\ rs_pc \in {"loop", "lookup", "save_output", "save_progress"}
    /\ interrupted' = TRUE
    /\ rs_pc' = "finally"
    /\ UNCHANGED <<pre_enriched, findable, output_file, progress_file,
                   output_data, start_from, loop_i, i_bound, enriched_count,
                   runs, processed, not_resume_vars, swarm_vars>>

\* lines 630-645: the final save of the output and of the progress
FinalSave ==
    /\ rs_pc = "finally"
    /\ output_file' = output_data
    /\ progress_file' = [last_index |-> final_index(i_bound, loop_i, start_from),
                         enriched_count |-> enriched_count]
    /\ rs_pc' = "ended"
    /\ UNCHANGED <<pre_enriched, findable, output_data, start_from, loop_i,
                   i_bound, enriched_count, interrupted, runs, processed,
                   not_resume_vars, swarm_vars>>

NextResume ==
    \/ StartRun
    \/ LoopNext
    \/ Lookup
    \/ SaveOutput
    \/ SaveProgress
    \/ Interrupt
    \/ FinalSave

SpecResume == InitResume /\ [][NextResume]_vars

-----------------------------------------------------------------------------
(* The social enrichment swarm (social_enrichment_swarm.py, lines 134-215):*)
(* asyncio workers over a queue of batches filled before they start. A     *)
(* coroutine runs without interruption between two awaits, so each action  *)
(* is the code from one await to the next.                                 *)

\* lines 183-185: researchers[i:i+BATCH_SIZE] for i = 0, BATCH_SIZE, ...
batches_of(list) ==
    [b \in 1..((Len(list) + BatchSize - 1) \div BatchSize) |->
        SubSeq(list, (b - 1) * BatchSize + 1, Min(b * BatchSize, Len(list)))]

\* line 151, mutated: the researcher is dropped when enrichment raises
after_error_dropped(res, r) == res

\* line 151: results.append(researcher), the original record
after_error(res, r) == Append(res, [id |-> r, kind |-> "original"])

\* line 146: results.append(enriched)
after_enriched(res, r) == Append(res, [id |-> r, kind |-> "enriched"])

\* lines 176-199: main has loaded the list, filled the queue and created
\* the workers; researcher k of the list is the number k
InitSwarm ==
    /\ \E n \in 0..MaxResearchers :
          /\ researchers = [k \in 1..n |-> k]
          /\ queue = batches_of([k \in 1..n |-> k])
          /\ progress = [done |-> 0, errors |-> 0, total |-> n]
    /\ swarm_results = <<>>
    /\ w_pc = [w \in Workers |-> "get"]
    /\ w_batch = [w \in Workers |-> <<>>]
    /\ main_pc = "gather"
    /\ IdleMerge
    /\ IdleScholarMerge
    /\ IdleEnrich
    /\ IdleAssoc
    /\ IdleMatch
    /\ IdleSearch
    /\ IdleLoad
    /\ IdleFuse
    /\ IdleResume

\* line 139: queue.get() returns a batch
Get(w) ==
    /\ w_pc[w] = "get"
    /\ queue # <<>>
    /\ w_batch' = [w_batch EXCEPT ![w] = Head(queue)]
    /\ queue' = Tail(queue)
    /\ w_pc' = [w_pc EXCEPT ![w] = "enrich"]
    /\ UNCHANGED <<researchers, swarm_results, progress, main_pc, not_swarm_vars>>

\* lines 139-141: the queue stays empty for 5 seconds, the worker leaves
\* its loop
Timeout(w) ==
    /\ w_pc[w] = "get"
    /\ queue = <<>>
    /\ w_pc' = [w_pc EXCEPT ![w] = "done"]
    /\ UNCHANGED <<researchers, queue, swarm_results, progress, w_batch, main_pc,
                   not_swarm_vars>>

\* lines 143-152: enrich_researcher returns or raises for the next
\* researcher of the batch, and the entry is appended
Enrich(w) ==
    /\ w_pc[w] = "enrich"
    /\ LET r == Head(w_batch[w])
           rest == Tail(w_batch[w])
       IN  /\ w_batch' = [w_batch EXCEPT ![w] = rest]
           /\ \/ /\ swarm_results' = after_enriched(swarm_results, r)
                 /\ progress' = [progress EXCEPT !.done = @ + 1]
                 /\ w_pc' = [w_pc EXCEPT ![w] = "sleep"]
              \/ /\ swarm_results' = after_error(swarm_results, r)
                 /\ progress' = [progress EXCEPT !.errors = @ + 1]
                 /\ w_pc' = [w_pc EXCEPT ![w] =
                                IF rest = <<>> THEN "task_done" ELSE "enrich"]
    /\ UNCHANGED <<researchers, queue, main_pc, not_swarm_vars>>

\* line 149: asyncio.sleep(RATE_LIMIT_DELAY) returns
Sleep(w) ==
    /\ w_pc[w] = "sleep"
    /\ w_pc' = [w_pc EXCEPT ![w] =
                   IF w_batch[w] = <<>> THEN "task_done" ELSE "enrich"]
    /\ UNCHANGED <<researchers, queue, swarm_results, progress, w_batch, main_pc,
                   not_swarm_vars>>

\* lines 154-159: queue.task_done() and the progress line, back to the get
TaskDone(w) ==
    /\ w_pc[w] = "task_done"
    /\ w_pc' = [w_pc EXCEPT ![w] = "get"]
    /\ UNCHANGED <<researchers, queue, swarm_results, progress, w_batch, main_pc,
                   not_swarm_vars>>

WorkerStep(w) == Get(w) \/ Timeout(w) \/ Enrich(w) \/ Sleep(w) \/ TaskDone(w)

\* lines 212-236: asyncio.gather(*workers) returns and the results are saved
SaveResults ==
    /\ main_pc = "gather"
    /\ \A w \in Workers : w_pc[w] = "done"
    /\ main_pc' = "saved"
    /\ UNCHANGED <<researchers, queue, swarm_results, progress, w_pc, w_batch,
                   not_swarm_vars>>

NextSwarm ==
    \/ \E w \in Workers : Get(w)
    \/ \E w \in Workers : Timeout(w)
    \/ \E w \in Workers : Enrich(w)
    \/ \E w \in Workers : Sleep(w)
    \/ \E w \in Workers : TaskDone(w)
    \/ SaveResults

SpecSwarm == InitSwarm /\ [][NextSwarm]_vars

\* the event loop runs every task that is ready: no worker and not main is
\* left waiting for ever with a step it can take
SpecSwarmFair ==
    /\ SpecSwarm
    /\ \A w \in Workers : WF_vars(WorkerStep(w))
    /\ WF_vars(SaveResults)

-----------------------------------------------------------------------------
(* Properties *)

Count(s, x) == Cardinality({i \in 1..Len(s) : s[i] = x})

\* the two lists hold the same entries the same number of times
SameBag(s, t) == \A x \in Range(s) \cup Range(t) : Count(s, x) = Count(t, x)

MergeDone == pc \in {"merged", "swapped"}

\* C1: the verified flag of merge_faculty_record(base, overlay) is
\* base.verified OR overlay.verified (the original claim; the code copies
\* base and never reads the overlay's flag)
C1_VerifiedIsOr ==
    MergeDone => (merged.ksu_verified = (base.ksu_verified \/ overlay.ksu_verified))

\* C2: enrich_faculty_member marks a record verified only if at least one
\* source lookup of the call returned a verified candidate (the original
\* claim; the code marks every record that carries scholar data)
C2_VerifiedOnlyIfSourceMatched ==
    (en_pc = "done" /\ enriched.ksu_verified /\ ~faculty.ksu_verified)
        => sources_tried # {}

\* the sources that contributed to a record: those it has accumulated in
\* 'sources' and those merge_faculty_record reads off it
Provenance(r) == r.sources \cup record_sources(r)

\* the fields C3 names: metrics, provenance, interests, string fields and
\* the publications as a bag; a metric missing at the top level of A is read
\* from its scholar object, a missing total_citations from citedby
SameFields(r, a) ==
    /\ r.h_index = (IF a.h_index > 0 THEN a.h_index ELSE a.scholar.h_index)
    /\ r.citation_count = (IF a.citation_count > 0 THEN a.citation_count
                           ELSE a.scholar.total_citations)
    /\ r.scholar.h_index = a.scholar.h_index
    /\ r.scholar.i10_index = a.scholar.i10_index
    /\ r.scholar.total_citations =
           (IF a.scholar.total_citations > 0 THEN a.scholar.total_citations
            ELSE a.scholar.citedby)
    /\ Provenance(r) = Provenance(a)
    /\ r.scholar.interests = a.scholar.interests
    /\ r.name = a.name
    /\ r.scholar.scholar_id = a.scholar.scholar_id
    /\ r.scholar.name = a.scholar.name
    /\ r.scholar.affiliation = a.scholar.affiliation
    /\ SameBag(r.scholar.publications, a.scholar.publications)

\* C3: merge_faculty_record(A, A) equals A in every field, up to the order
\* of the publications (the original claim)
C3_MergeIdempotent ==
    (MergeDone /\ base = overlay) => SameFields(merged, base)

\* C4: fusing three partial records left to right and right to left gives
\* the same h_index, i10_index, total_citations, provenance and interests
\* (the original claim)
C4_MergeAssociative ==
    as_pc = "right" =>
        /\ left.h_index = right.h_index
        /\ left.scholar.h_index = right.scholar.h_index
        /\ left.scholar.i10_index = right.scholar.i10_index
        /\ left.scholar.total_citations = right.scholar.total_citations
        /\ left.sources = right.sources
        /\ left.scholar.interests = right.scholar.interests

\* C5, as stated: every metric of the merged record is the maximum of the
\* same field of base and of overlay, a missing value counting as 0
C5_MetricsAreFieldMax ==
    MergeDone =>
        /\ merged.h_index = Max(base.h_index, overlay.h_index)
        /\ merged.scholar.h_index = Max(base.scholar.h_index, overlay.scholar.h_index)
        /\ merged.scholar.i10_index =
               Max(base.scholar.i10_index, overlay.scholar.i10_index)
        /\ merged.scholar.total_citations =
               Max(base.scholar.total_citations, overlay.scholar.total_citations)

\* C5, amended: every metric of the merged record is the maximum of the two
\* records' values, where a record's top-level h_index and citation_count
\* fall back on the h_index and total_citations of its scholar object and a
\* scholar object's total_citations falls back on its citedby; no metric
\* field of either input is lowered
C5_MetricsAreMaxWithFallback ==
    MergeDone =>
        LET TopH(r) == IF r.h_index > 0 THEN r.h_index ELSE r.scholar.h_index
            Cites(sch) == IF sch.total_citations > 0 THEN sch.total_citations
                          ELSE sch.citedby
            TopCites(r) == IF r.citation_count > 0 THEN r.citation_count
                           ELSE r.scholar.total_citations
        IN  /\ merged.h_index = Max(TopH(base), TopH(overlay))
            /\ merged.citation_count = Max(TopCites(base), TopCites(overlay))
            /\ merged.scholar.h_index =
                   Max(base.scholar.h_index, overlay.scholar.h_index)
            /\ merged.scholar.i10_index =
                   Max(base.scholar.i10_index, overlay.scholar.i10_index)
            /\ merged.scholar.total_citations =
                   Max(Cites(base.scholar), Cites(overlay.scholar))
            /\ \A r \in {base, overlay} :
                   /\ merged.h_index >= r.h_index
                   /\ merged.scholar.h_index >= r.scholar.h_index
                   /\ merged.scholar.i10_index >= r.scholar.i10_index
                   /\ merged.scholar.total_citations >= r.scholar.total_citations

\* C5, witness: a merge in which the overlay holds the higher h_index and
\* the base's citation count comes from citedby
C5_Witness ==
    /\ pc = "merged"
    /\ 0 < base.scholar.h_index /\ base.scholar.h_index < overlay.scholar.h_index
    /\ merged.scholar.h_index = overlay.scholar.h_index

\* C5, second case reached: the fallback on citedby decides the result
C5_FallbackReached ==
    /\ pc = "merged"
    /\ base.scholar.total_citations = 0 /\ base.scholar.citedby > 0
    /\ merged.scholar.total_citations = base.scholar.citedby


\* C6: the sources of a merged record are the union of the sources that
\* contributed to its two inputs, those an input accumulated in an earlier
\* merge included (the original claim), here for the second merge of three
\* records fused left to right
C6_SourcesAreUnion ==
    as_pc \in {"left", "inner_right", "right"} =>
        left.sources = Provenance(inner_left) \cup Provenance(third)

ScholarStringFields == {"scholar_id", "name", "affiliation"}

\* C7, as stated: where base and overlay both carry a non-empty value of a
\* string field, the merged record keeps the value of base
C7_BaseWinsStrings ==
    MergeDone =>
        \A f \in ScholarStringFields :
            (base.scholar[f] # NoString /\ overlay.scholar[f] # NoString)
                => merged.scholar[f] = base.scholar[f]

\* C7, amended: for the string fields of the scholar object (scholar_id,
\* name, affiliation) the overlay's value is kept whenever it is non-empty
\* and the base's value only when the overlay's is empty; the top-level
\* fields of the record, the display name among them, are always the base's
C7_OverlayWinsScholarStrings ==
    MergeDone =>
        /\ (base.scholar.exists \/ overlay.scholar.exists) =>
               \A f \in ScholarStringFields :
                   merged.scholar[f] =
                       (IF overlay.scholar[f] # NoString THEN overlay.scholar[f]
                        ELSE base.scholar[f])
        /\ merged.name = base.name

\* C7, witness: both records name the scholar differently and the merged
\* record carries the overlay's name
C7_Witness ==
    /\ pc = "merged"
    /\ base.scholar.name # NoString /\ overlay.scholar.name # NoString
    /\ base.scholar.name # overlay.scholar.name
    /\ merged.scholar.name = overlay.scholar.name
    /\ merged.name = base.name /\ base.name # overlay.name

\* a title with a character other than blanks
HasTitle(p) == Strip(p.title) # NoString

\* C8, as stated: no two entries of the merged publication list share a
\* non-empty DOI, and no two have titles of which one is a case-insensitive
\* substring of the other
C8_NoDuplicatePublications ==
    MergeDone =>
        LET pubs == merged.scholar.publications
        IN  \A i, j \in 1..Len(pubs) :
                i # j =>
                    /\ ~(pubs[i].doi # NoString /\ pubs[i].doi = pubs[j].doi)
                    /\ ~IsSubstr(Lower(pubs[i].title), Lower(pubs[j].title))

\* C8, amended: no two entries share a non-empty DOI, and no two entries
\* that both have a non-blank title have titles of which one is a
\* case-insensitive substring of the other
C8_NoDuplicateTitledPublications ==
    MergeDone =>
        LET pubs == merged.scholar.publications
        IN  \A i, j \in 1..Len(pubs) :
                i # j =>
                    /\ ~(pubs[i].doi # NoString /\ pubs[i].doi = pubs[j].doi)
                    /\ (HasTitle(pubs[i]) /\ HasTitle(pubs[j])) =>
                           ~IsSubstr(Lower(pubs[i].title), Lower(pubs[j].title))

\* C8, witness: a merge that dropped a duplicate and kept two entries
C8_Witness ==
    /\ pc = "merged"
    /\ Len(merged.scholar.publications) >= 2
    /\ Len(merged.scholar.publications)
           < Len(base.scholar.publications) + Len(overlay.scholar.publications)
    /\ \E i \in 1..Len(base.scholar.publications) :
          /\ HasTitle(base.scholar.publications[i])
          /\ Count(merged.scholar.publications, base.scholar.publications[i]) = 0

\* the DOI as the data model spells it: lower case, without the
\* https://doi.org/ prefix
canonical_doi(d) == RemovePrefix(Lower(d), DoiPrefix)

TitlesMatch(p, q) ==
    LET t == dedupe_title(p)
        u == dedupe_title(q)
    IN  t # NoString /\ u # NoString /\ (IsSubstr(t, u) \/ IsSubstr(u, t))

\* C9: of two input entries whose DOIs are the same up to letter case and
\* the https://doi.org/ prefix, and whose titles do not match, the
\* deduplicator keeps exactly one (the original claim)
C9_SameDoiKeptOnce ==
    MergeDone =>
        LET input == base.scholar.publications \o overlay.scholar.publications
            kept == merged.scholar.publications
        IN  \A i, j \in 1..Len(input) :
                (/\ i < j
                 /\ input[i].doi # NoString
                 /\ input[i] # input[j]
                 /\ canonical_doi(input[i].doi) = canonical_doi(input[j].doi)
                 /\ ~TitlesMatch(input[i], input[j]))
                    => Cardinality({input[i], input[j]} \cap Range(kept)) = 1

\* C10: merging the two publication lists in either order keeps the same
\* multiset of publications (the original claim; no list of the model
\* reaches the cap)
C10_PublicationMergeCommutes ==
    pc = "swapped" =>
        SameBag(merged.scholar.publications, swapped.scholar.publications)

\* p ranks at least as high as q in the order of the merged list: more
\* citations, or as many and a year that is not earlier (a missing year
\* being 0)
RanksNoLower(p, q) ==
    \/ p.citations > q.citations
    \/ p.citations = q.citations /\ p.year >= q.year

\* p and q are duplicates for the merge: the same non-empty DOI, or titles
\* of which one contains the other
DuplicateOf(p, q) ==
    \/ p.doi # NoString /\ p.doi = q.doi
    \/ HasTitle(p) /\ HasTitle(q) /\ TitlesMatch(p, q)

\* C11: the publication list of a merged record is ordered by descending
\* citations, ties by descending year with a missing year last, holds at
\* most 50 entries, and every entry of the inputs that was dropped without
\* being a duplicate of a kept entry ranks no higher than every kept entry
C11_SortedAndTruncatedFromTheBottom ==
    MergeDone =>
        LET kept == merged.scholar.publications
            all  == base.scholar.publications \o overlay.scholar.publications
        IN  /\ Len(kept) <= PUB_CAP
            /\ \A i \in 1..Len(kept) : \A j \in 1..Len(kept) :
                   i < j => RanksNoLower(kept[i], kept[j])
            /\ \A n \in 1..Len(all) :
                   (/\ Count(kept, all[n]) = 0
                    /\ \A k \in 1..Len(kept) : ~DuplicateOf(all[n], kept[k]))
                   => \A k \in 1..Len(kept) : RanksNoLower(kept[k], all[n])

\* C11, reached: the two lists together exceed the cap, the merged list is
\* cut to 50 entries, a non-duplicate entry was dropped and the kept entries
\* differ in citations and, among equal citations, in year
C11_Witness ==
    /\ pc = "merged"
    /\ Len(merged.scholar.publications) = PUB_CAP
    /\ LET kept == merged.scholar.publications
           all  == base.scholar.publications \o overlay.scholar.publications
       IN  /\ \E n \in 1..Len(all) :
                  /\ Count(kept, all[n]) = 0
                  /\ \A k \in 1..Len(kept) : ~DuplicateOf(all[n], kept[k])
           /\ kept[1].citations > kept[PUB_CAP].citations
           /\ \E i \in 1..(PUB_CAP - 1) :
                  /\ kept[i].citations = kept[i + 1].citations
                  /\ kept[i].year > kept[i + 1].year
           /\ \E k \in 1..PUB_CAP : kept[k] \in Range(overlay.scholar.publications)
                                      /\ kept[k] \notin Range(base.scholar.publications)

\* C12: merge_scholar_data on the two records of the scenario yields
\* h_index 15, exactly two publications (one per DOI) and the sources of
\* both records (the original claim)
C12_ScenarioScholarMerge ==
    (sd_pc = "merged" /\ \E t \in BOOLEAN :
                            existing = ScenarioX(t) /\ new_data = ScenarioY(t))
    => /\ sd_merged.h_index = 15
       /\ Len(sd_merged.publications) = 2
       /\ {sd_merged.publications[i].doi : i \in 1..2} = {DoiAbc, DoiXyz}
       /\ sd_merged.sources = {"openalex", "semantic_scholar"}

\* C12, the part merge_scholar_data meets: the higher h_index
C12_ScenarioHIndex ==
    (sd_pc = "merged" /\ \E t \in BOOLEAN :
                            existing = ScenarioX(t) /\ new_data = ScenarioY(t))
    => sd_merged.h_index = 15

\* C12, the part merge_scholar_data misses even when the publications are
\* titled: the sources of both records
C12_ScenarioScholarSources ==
    (sd_pc = "merged" /\ existing = ScenarioX(TRUE) /\ new_data = ScenarioY(TRUE))
    => sd_merged.sources = {"openalex", "semantic_scholar"}

\* C12, the part merge_scholar_data misses when the publications are
\* untitled: two publications
C12_ScenarioScholarCount ==
    (sd_pc = "merged" /\ existing = ScenarioX(FALSE) /\ new_data = ScenarioY(FALSE))
    => Len(sd_merged.publications) = 2

\* C12 for merge_faculty_record: the two faculty records of the scenario
\* merge into h_index 15, two publications and both sources
C12_ScenarioFacultyMerge ==
    (pc = "merged" /\ \E t \in BOOLEAN :
                         /\ base = ScenarioRecord(ScenarioX(t))
                         /\ overlay = ScenarioRecord(ScenarioY(t)))
    => /\ merged.h_index = 15 /\ merged.scholar.h_index = 15
       /\ Len(merged.scholar.publications) = 2
       /\ {merged.scholar.publications[i].doi : i \in 1..2} = {DoiAbc, DoiXyz}
       /\ merged.sources = {"openalex", "semantic_scholar"}

\* the institution keywords, in lower case
InstitutionKeywords ==
    { <<"k","e","n","n","e","s","a","w">>, <<"k","s","u">>,
      <<"k","e","n","n","e","s","a","w"," ","s","t","a","t","e">> }

\* every field of every entry is a string or absent
WellTyped(affiliations) ==
    \A i \in 1..Len(affiliations) :
        ~affiliations[i].dn_object /\ ~affiliations[i].nm_object

AffiliationChecked == mt_pc = "done" /\ aff_result # "none"

C14_VerifiersNeverRaise ==
    mt_pc = "done" =>
        \/ aff_result \in {"True", "False"} /\ name_result = "none"
        \/ name_result \in {"True", "False"} /\ aff_result = "none"

NamesCompared == mt_pc = "done" /\ name_result # "none"

\* C15: names_match("Dr. Jane A. Smith", "Jane Smith") returns true (the
\* original claim)
C15_DrJaneASmithMatches ==
    (NamesCompared /\ name_a = DrJaneASmith /\ name_b = JaneSmith)
    => name_result = "True"

\* C16: names_match("John Smith", "Jane Smith") returns false (the original
\* claim)
C16_JohnIsNotJane ==
    (NamesCompared /\ name_a = JohnSmith /\ name_b = JaneSmith)
    => name_result = "False"

\* a name in lower case without surrounding blanks
Normalized(n) == Strip(Lower(n))

\* the last whitespace-delimited token of a normalized, non-empty name: what
\* follows its last blank
LastToken(m) ==
    LET blanks == {i \in 1..Len(m) : m[i] = " "}
    IN  IF blanks = {} THEN m
        ELSE SubSeq(m, (CHOOSE i \in blanks : \A j \in blanks : j <= i) + 1, Len(m))

\* C17: names_match(a, b) is true exactly when, after lowercasing and
\* trimming, one name is a substring of the other, or both have a token,
\* their last tokens are equal and their first tokens start with the same
\* character
C17_NamesMatchRule ==
    NamesCompared =>
        LET m1 == Normalized(name_a)
            m2 == Normalized(name_b)
        IN  (name_result = "True") <=>
                \/ IsSubstr(m1, m2)
                \/ IsSubstr(m2, m1)
                \/ /\ m1 # NoString /\ m2 # NoString
                   /\ LastToken(m1) = LastToken(m2)
                   /\ m1[1] = m2[1]

\* C17, reached: neither generated name contains the other and the names
\* match on surname and first initial
C17_Witness ==
    /\ NamesCompared
    /\ name_result = "True"
    /\ name_a \in GeneratedNames /\ name_b \in GeneratedNames
    /\ ~IsSubstr(Normalized(name_a), Normalized(name_b))
    /\ ~IsSubstr(Normalized(name_b), Normalized(name_a))
    /\ Lower(name_a) # name_a

\* the handler has answered a request that passed validation
Answered == sr_pc = "responded" /\ response.status = 200

\* C18: a request whose weights sum to more than 1, or with a negative
\* weight, is rejected, and no returned weighted score was computed with a
\* negative semantic weight (the original claim)
C18_InvalidWeightsRejected ==
    sr_pc = "responded" =>
        /\ (\/ request.h_weight + request.citation_weight > WeightDen
            \/ request.h_weight < 0
            \/ request.citation_weight < 0) => response.status # 200
        /\ (response.status = 200 /\ response.results # <<>>)
               => WeightDen - request.h_weight - request.citation_weight >= 0

\* C18, the part the code meets: a negative weight is rejected
C18_NegativeWeightRejected ==
    (sr_pc = "responded" /\ (request.h_weight < 0 \/ request.citation_weight < 0))
    => response.status = 422

\* the largest element of a set of naturals, 1 for the empty set and for {0}
LargestOrOne(S) ==
    IF S \subseteq {0} THEN 1 ELSE CHOOSE x \in S : \A y \in S : y <= x

\* the fetched rows that have a record and pass the request's filters
Surviving ==
    {i \in 1..Len(fetched) :
        /\ fetched[i].found
        /\ fetched[i].h_index >= request.min_h_index
        /\ \/ request.institution = NoString
           \/ IsSubstr(Lower(request.institution), Lower(fetched[i].institution))}

\* C19: the weighted score of every returned result is the one computed
\* with the maxima of h-index and citations over the surviving candidates
\* only (the original claim)
C19_MaximaOverSurvivors ==
    Answered =>
        LET mh == LargestOrOne({fetched[i].h_index : i \in Surviving})
            mc == LargestOrOne({fetched[i].citations : i \in Surviving})
            sw == WeightDen - request.h_weight - request.citation_weight
        IN  \A k \in 1..Len(response.results) :
                LET r == response.results[k]
                    num == r.semantic_score * sw * mh * mc
                           + r.h_index * request.h_weight * ScoreDen * mc
                           + r.citations * request.citation_weight * ScoreDen * mh
                    den == ScoreDen * WeightDen * mh * mc
                IN  r.weighted_num * den = num * r.weighted_den

\* C20: of two results with the same semantic score, the one with the
\* higher h-index has a weighted score at least as high, whatever the
\* weights and citation counts (the original claim)
C20_HigherHIndexRanksNoLower ==
    Answered =>
        \A a \in 1..Len(response.results) : \A b \in 1..Len(response.results) :
            LET ra == response.results[a]
                rb == response.results[b]
            IN  (ra.semantic_score = rb.semantic_score /\ ra.h_index > rb.h_index)
                => ra.weighted_num * rb.weighted_den >= rb.weighted_num * ra.weighted_den

\* C20, amended: of two results with the same semantic score, the one with
\* the higher h-index has a weighted score at least as high whenever its
\* citation count is not lower or the citation weight is 0
C20_HigherHIndexRanksNoLowerAtEqualCitations ==
    Answered =>
        \A a \in 1..Len(response.results) : \A b \in 1..Len(response.results) :
            LET ra == response.results[a]
                rb == response.results[b]
            IN  (/\ ra.semantic_score = rb.semantic_score
                 /\ ra.h_index > rb.h_index
                 /\ request.h_weight >= 0
                 /\ ra.citations >= rb.citations \/ request.citation_weight = 0)
                => ra.weighted_num * rb.weighted_den >= rb.weighted_num * ra.weighted_den

\* C20, reached: two results with the same semantic score, the second
\* fetched row having the higher h-index and more citations, positive
\* weights, and that row ranked first with a strictly higher score
C20_Witness ==
    /\ Answered
    /\ Len(response.results) = 2
    /\ request.h_weight > 0 /\ request.citation_weight > 0
    /\ LET ra == response.results[1]
           rb == response.results[2]
       IN  /\ ra.idx = 2 /\ rb.idx = 1
           /\ ra.semantic_score = rb.semantic_score /\ ra.semantic_score > 0
           /\ ra.h_index > rb.h_index /\ ra.citations > rb.citations
           /\ ra.weighted_num > rb.weighted_num

\* the weighted score the handler gives fetched row i, as a numerator over
\* the denominator all rows of one call share
ScoreOf(i) == weighted_num(request, fetched[i], max_h(fetched), max_c(fetched))

\* C21: the response is the first `limit` of the surviving candidates in
\* descending order of weighted score: it holds min(limit, survivors)
\* results, each a distinct surviving candidate with its own score, ranked
\* 1, 2, ... with non-increasing scores, and no candidate left out scores
\* higher than one returned
C21_TopLimitOfFilteredSorted ==
    Answered =>
        LET res == response.results
        IN  /\ Len(res) = Min(request.limit, Cardinality(Surviving))
            /\ Len(res) <= request.limit
            /\ \A k \in 1..Len(res) :
                    /\ res[k].rank = k
                    /\ res[k].idx \in Surviving
                    /\ res[k].weighted_num = ScoreOf(res[k].idx)
                    /\ res[k].h_index >= request.min_h_index
                    /\ (request.institution # NoString) =>
                           IsSubstr(Lower(request.institution), Lower(res[k].institution))
            /\ \A k \in 1..Len(res) : \A l \in 1..Len(res) :
                    k < l => /\ res[k].idx # res[l].idx
                             /\ res[k].weighted_num >= res[l].weighted_num
            /\ \A i \in Surviving :
                    (\A k \in 1..Len(res) : res[k].idx # i) =>
                        \A k \in 1..Len(res) : res[k].weighted_num >= ScoreOf(i)

\* C21, reached: three fetched rows, one dropped by the institution filter,
\* the other two surviving a limit of 1, and the later one returned with
\* rank 1 because its score is higher
C21_Witness ==
    /\ Answered
    /\ Len(fetched) = 3
    /\ request.limit = 1
    /\ Cardinality(Surviving) = 2
    /\ \E i \in 1..Len(fetched) : fetched[i].found /\ i \notin Surviving
    /\ Len(response.results) = 1
    /\ response.results[1].idx = 3
    /\ response.results[1].weighted_num > ScoreOf(2)

\* C22: the semantic term of every returned weighted score is computed from
\* a similarity in [0, 1]: with a non-negative semantic weight it lies
\* between 0 and the semantic weight
C22_SimilarityNormalised ==
    (Answered /\ semantic_weight(request) >= 0) =>
        LET mh == max_h(fetched)
            mc == max_c(fetched)
        IN  \A k \in 1..Len(response.results) :
                LET r == response.results[k]
                    semantic_term ==
                        r.weighted_num
                        - r.h_index * request.h_weight * ScoreDen * mc
                        - r.citations * request.citation_weight * ScoreDen * mh
                IN  /\ semantic_term >= 0
                    /\ semantic_term <= ScoreDen * semantic_weight(request) * mh * mc

\* C23: a valid request is answered without an error whatever the index
\* returned: ids absent from the lookup table are passed over, the
\* candidates that remain are ranked with a non-zero divisor, and when none
\* remains the response holds zero results
C23_PartialCandidatesAreNotErrors ==
    (sr_pc = "responded" /\ valid_request(request)) =>
        /\ response.status = 200
        /\ Len(response.results) = Min(request.limit, Cardinality(Surviving))
        /\ (\A i \in 1..Len(fetched) : ~fetched[i].found) => response.results = <<>>
        /\ \A k \in 1..Len(response.results) :
               /\ response.results[k].weighted_den > 0
               /\ fetched[response.results[k].idx].found

\* C23, reached: the index returned an id absent from the lookup table and
\* one record whose h-index is 0, the largest there is; the record is
\* returned with status 200
C23_Witness ==
    /\ Answered
    /\ \E i \in 1..Len(fetched) : ~fetched[i].found
    /\ \E i \in 1..Len(fetched) : fetched[i].found
    /\ \A i \in 1..Len(fetched) : fetched[i].h_index = 0
    /\ Len(response.results) = 1
    /\ response.results[1].h_index = 0

\* C23, reached: every id the index returned is absent from the lookup
\* table, and the response holds zero results
C23_EmptyReached ==
    /\ Answered
    /\ Len(fetched) > 0
    /\ \A i \in 1..Len(fetched) : ~fetched[i].found
    /\ response.results = <<>>

\* C24: merge_faculty_record returns a record for every pair of partial
\* records, whatever optional field is missing or null: the call never
\* ends in an exception
C24_MergeNeverFailsOnMissingFields ==
    pc # "AttributeError"

\* C25: the scholar merge has no side effect on its inputs: after
\* merge_scholar_data(existing, new_data) the object passed as `existing`,
\* its publications list included, is what it was before the call
C25_MergeLeavesInputsUnchanged ==
    sd_pc = "merged" =>
        /\ existing_after = existing
        /\ Len(existing_after.publications) = Len(existing.publications)

\* C26: every handler that served a request found the model, the index, the
\* lookup table with integer keys and the metadata all loaded, and while
\* the server is serving the globals are those of the completed load
C26_HandlersSeeLoadedCorpus ==
    /\ \A o \in observed :
           /\ o.model = "loaded" /\ o.index = "loaded"
           /\ o.lookup = "int_keys" /\ o.metadata = "loaded"
    /\ server = "serving" =>
           /\ model = "loaded" /\ index = "loaded"
           /\ lookup = "int_keys" /\ metadata = "loaded"

\* C26, the last clause as stated: no reachable state has the index set
\* while the lookup table is unset or still has string keys (the original
\* claim)
C26_NoHalfLoadedState ==
    /\ C26_HandlersSeeLoadedCorpus
    /\ ~(index = "loaded" /\ lookup \in {"None", "str_keys"})

\* C26, reached: the load has completed, and /search and another handler
\* have each served a request
C26_Witness ==
    /\ served = MaxRequests
    /\ \E o \in observed : o.handler = "/search"
    /\ \E o \in observed : o.handler # "/search"

\* the records of both input datasets that carry a net_id
InputRecords ==
    {r \in Range(gs_data) \cup Range(api_data) : r.net_id # NoString}

\* C27: the saved output loses no record: every input record with a net_id
\* has exactly one output record with that net_id, and this record names
\* the sources of the input record
C27_FusionLosesNoRecord ==
    fu_pc = "saved" =>
        \A r \in InputRecords :
            /\ Cardinality({k \in 1..Len(merged_data) :
                               merged_data[k].net_id = r.net_id}) = 1
            /\ \E k \in 1..Len(merged_data) :
                   /\ merged_data[k].net_id = r.net_id
                   /\ record_sources(r) \subseteq merged_data[k].sources

\* C28: restarting from the saved progress skips no record: every index up
\* to the saved last_index has had its iteration completed (its lookup
\* stored, or passed over because the output held enrichment for it), and
\* once a run has gone through the loop without interruption every index
\* below len(faculty) has
C28_ResumeSkipsNoRecord ==
    /\ \A k \in FacultyIndices :
           k <= progress_file.last_index => k \in processed
    /\ progress_file.last_index < FacultyLen
    /\ (rs_pc = "ended" /\ ~interrupted) => processed = FacultyIndices

AllWorkersDone == \A w \in Workers : w_pc[w] = "done"

\* the entries of the results list for researcher r
EntriesFor(r) == {k \in 1..Len(swarm_results) : swarm_results[k].id = r}

\* C29: under every interleaving of the workers, no researcher is ever
\* entered twice in the results; when all workers have terminated the
\* results hold exactly one entry per input researcher, and the counters
\* add up to the input; and all workers do terminate
C29_EveryResearcherExactlyOnce ==
    /\ [](\A r \in Range(researchers) : Cardinality(EntriesFor(r)) <= 1)
    /\ [](AllWorkersDone =>
            /\ Len(swarm_results) = Len(researchers)
            /\ \A r \in Range(researchers) : Cardinality(EntriesFor(r)) = 1
            /\ progress.done + progress.errors = progress.total
            /\ queue = <<>>)
    /\ <>[]AllWorkersDone

\* C29, reached: the results are saved, two workers have interleaved (the
\* entries are not in the order of the input) and one enrichment raised
C29_Witness ==
    /\ main_pc = "saved"
    /\ Len(swarm_results) = MaxResearchers
    /\ \E k \in 1..Len(swarm_results) : swarm_results[k].kind = "original"
    /\ \E k \in 1..Len(swarm_results) : swarm_results[k].kind = "enriched"
    /\ \E k \in 1..Len(swarm_results) : \E l \in 1..Len(swarm_results) :
           k < l /\ swarm_results[k].id > swarm_results[l].id

\* an affiliation-verified OpenAlex result as line 127 reads it, with the
\* display name nm ('' when the field is missing or null, line 134)
VerifiedOpenAlexResult(nm) ==
    [id |-> <<"A","1">>, display_name |-> nm,
     last_known_institutions |-> <<AffDict(Kennesaw, NoString)>>,
     affiliations |-> <<>>, h_index |-> 1, cited_by_count |-> 1,
     works_count |-> 1]

\* an affiliation-verified Semantic Scholar author, with the name nm
VerifiedSemanticHit(nm) ==
    [authorId |-> <<"7">>, details_ok |-> TRUE, name |-> nm,
     affiliations |-> <<AffStr(Kennesaw)>>, hIndex |-> 1, citationCount |-> 1,
     paperCount |-> 1]

\* a name that is empty or holds only blanks
IsBlank(n) == \A i \in 1..Len(n) : n[i] = " "

\* C30: names_match returns true whenever one of its arguments is empty or
\* holds only blanks, and both lookups accept an affiliation-verified
\* candidate without a name for whatever name was queried
C30_BlankNameMatchesEverything ==
    NamesCompared =>
        /\ (IsBlank(name_a) \/ IsBlank(name_b)) => name_result = "True"
        /\ openalex_accepts(name_a, VerifiedOpenAlexResult(NoString))
        /\ semantic_accepts(name_a, VerifiedSemanticHit(NoString))
        /\ IsBlank(name_b) =>
               /\ openalex_accepts(name_a, VerifiedOpenAlexResult(name_b))
               /\ semantic_accepts(name_a, VerifiedSemanticHit(name_b))

\* C30, reached: a name of several characters was compared with a name of
\* blanks only, and the result is true
C30_Witness ==
    /\ NamesCompared
    /\ ~IsBlank(name_a) /\ Len(name_a) > 1
    /\ IsBlank(name_b) /\ Len(name_b) > 0
    /\ name_result = "True"

====
